---- MODULE Spec2Model ----
(***************************************************************************)
(* A model of the Claerdex trading backend (backend/api): the account and  *)
(* position ledger of api/index.py over the persistence layer of           *)
(* api/state.py, with the price feed of api/aeternity_client.py as the     *)
(* source of quotes.                                                       *)
(*                                                                         *)
(* FastAPI runs the synchronous handlers in a thread pool, so two requests *)
(* are in flight at once.  A handler is cut at the places where it blocks  *)
(* on I/O (the KV round trips of db.get_account/db.save_account, the       *)
(* balance query, the quote request): each piece between two such places   *)
(* is one action.                                                          *)
(*                                                                         *)
(* Numbers.  The code computes in binary floating point.  Amounts are      *)
(* modelled as integers, and the inputs (collateral, leverage, quotes) are *)
(* drawn from sets on which every product and quotient the code forms is   *)
(* an integer, so that the float result and the integer result coincide.   *)
(***************************************************************************)
EXTENDS Integers, Sequences, FiniteSets, TLC

\* ------------------------------------------------------------------ bounds
MaxRequests == 3

\* ------------------------------------------------------------------ inputs
Addresses == {"ak_1"}
Slots == {1, 2}
Sides == {"long", "short"}
Assets == {"BTC", "XYZ"}
CollateralValues == {600, 1200}
LeverageValues == {1, 2}
ObjIds == 1..(Cardinality(Addresses) + Cardinality(Slots))

\* ------------------------------------------------------- aeternity_client
BASE_PRICES == {"BTC"}

\* The quotes get_oracle_price can return for an asset.  With ORACLE_API_URL
\* set and the oracle answering with a price for the asset, that price is
\* returned as it is; otherwise the mock feed answers: 0.0 for an asset that
\* is not in BASE_PRICES, a price around the base price for one that is.
OracleQuotes(asset) == {50, 100}

MockQuotes(asset) == IF asset \notin BASE_PRICES THEN {0} ELSE {50, 100}

get_oracle_price(asset) == OracleQuotes(asset) \cup MockQuotes(asset)

get_on_chain_balance(user_address) == 1000

\* round(x, 2) of a whole number of USD.
round2(x) == x

calculate_position_pnl(position_size_usd, entry_price, current_price, side) ==
    LET pnl_usd == IF side = "long"
                   THEN (current_price - entry_price) * (position_size_usd \div entry_price)
                   ELSE (entry_price - current_price) * (position_size_usd \div entry_price)
    IN  [pnl_usd |-> round2(pnl_usd)]

\* ------------------------------------------------------------------ models
Position(id, asset, side, size_usd, collateral_ae, leverage, entry_price, liquidation_price) ==
    [id |-> id, asset |-> asset, side |-> side, size_usd |-> size_usd,
     collateral_ae |-> collateral_ae, leverage |-> leverage,
     entry_price |-> entry_price, liquidation_price |-> liquidation_price,
     unrealized_pnl_usd |-> 0, unrealized_pnl_ae |-> 0, current_price |-> <<>>]

Account(address, on_chain_balance_ae, available_collateral_ae, positions) ==
    [address |-> address, on_chain_balance_ae |-> on_chain_balance_ae,
     available_collateral_ae |-> available_collateral_ae, positions |-> positions]

\* Account.model_dump_json / Account.model_validate_json: the JSON text holds
\* every field of the account and of each of its positions, and parsing it
\* builds a new object with the same field values.
model_dump_json(account) ==
    [address |-> account.address,
     on_chain_balance_ae |-> account.on_chain_balance_ae,
     available_collateral_ae |-> account.available_collateral_ae,
     positions |-> [i \in 1..Len(account.positions) |->
        [id |-> account.positions[i].id, asset |-> account.positions[i].asset,
         side |-> account.positions[i].side, size_usd |-> account.positions[i].size_usd,
         collateral_ae |-> account.positions[i].collateral_ae,
         leverage |-> account.positions[i].leverage,
         entry_price |-> account.positions[i].entry_price,
         liquidation_price |-> account.positions[i].liquidation_price,
         unrealized_pnl_usd |-> account.positions[i].unrealized_pnl_usd,
         unrealized_pnl_ae |-> account.positions[i].unrealized_pnl_ae,
         current_price |-> account.positions[i].current_price]]]

model_validate_json(account_json) ==
    Account(account_json.address, account_json.on_chain_balance_ae,
            account_json.available_collateral_ae, account_json.positions)

\* ------------------------------------------------------------------- state
VARIABLES
    USING_KV,      \* state.py: TRUE when the Redis-backed KV store is in use
    kv,            \* the KV store: address -> <<>> or <<account JSON>>
    ACCOUNTS_DB,   \* the in-memory store: address -> object id, 0 when absent
    heap,          \* the Account objects: object id -> <<>> or <<account>>
    req,           \* the request each worker thread is serving
    last,          \* the response the last step sent, NoResponse when it sent none
    nreq,          \* requests received so far
    nextId,        \* the position ids issued so far are 1..nextId-1
    args,          \* the arguments of a function taken on its own
    result,        \* <<its value>> once it has returned, <<>> before
    base_prices,   \* aeternity_client.BASE_PRICES: asset -> <<price>>, <<>> for None
    REAL_PRICES_LOADED,  \* aeternity_client._REAL_PRICES_LOADED
    interval,      \* int(time.time()) // 5: the 5-second window the clock is in
    rng,           \* seed -> what random.uniform returns right after random.seed
    oracle_url,    \* whether ORACLE_API_URL is set
    RECORDED_PRICE_HISTORY,  \* index.py: asset -> the recorded <<timestamp, price>>
    KV_AVAILABLE,  \* index.py: whether vercel_kv was imported
    history_kv,    \* the KV entry price_history:<asset>: <<>> or <<the list>>
    seeding        \* the call of initialize_price_history in progress

vars == <<USING_KV, kv, ACCOUNTS_DB, heap, req, last, nreq, nextId, args, result,
          base_prices, REAL_PRICES_LOADED, interval, rng, oracle_url,
          RECORDED_PRICE_HISTORY, KV_AVAILABLE, history_kv, seeding>>

\* The state of the account service, and what a function taken on its own
\* works on.
service_vars == <<USING_KV, kv, ACCOUNTS_DB, heap, req, last, nreq, nextId>>

call_vars == <<args, result>>

\* The state of the price feed module and of what it reads: the clock, the
\* generator, the environment.
feed_vars == <<base_prices, REAL_PRICES_LOADED, interval, rng, oracle_url>>

\* The recorded price history of index.py.
history_vars == <<RECORDED_PRICE_HISTORY, KV_AVAILABLE, history_kv, seeding>>

\* A request's fields are drawn where the handler first reads them:
\* collateral_to_use_ae and position_id in the step that checks them, asset,
\* side and leverage in the step that builds the position.
IdleRequest ==
    [pc |-> "idle", op |-> "none", user_address |-> "", account |-> 0,
     get_raised |-> FALSE, collateral_to_use_ae |-> 0, position_to_close |-> <<>>,
     quotes |-> <<>>]

\* The response of a request: status and detail (or message), the position of
\* "Position opened successfully", the realized_pnl_ae of "Position closed";
\* with it the collateral or position id the request asked for, the quote the
\* handler got, and what db.save_account returned in the step that responded.
Response(op, status, detail, asked, position, realized_pnl_ae, price, saved) ==
    [op |-> op, status |-> status, detail |-> detail, asked |-> asked,
     position |-> position, realized_pnl_ae |-> realized_pnl_ae, price |-> price,
     saved |-> saved]

NoResponse == Response("none", 0, "", 0, <<>>, 0, 0, TRUE)

InFlight(r) == req[r].pc # "idle"

\* The account as the store holds it: <<>> when the address has none.
StoredIn(k, db, h, address) ==
    IF USING_KV THEN k[address]
    ELSE IF db[address] = 0 THEN <<>> ELSE h[db[address]]

Persisted(address) == StoredIn(kv, ACCOUNTS_DB, heap, address)

\* What the ledger keeps of an account besides the balance it re-queries.
View(stored) ==
    IF stored = <<>> THEN <<>>
    ELSE <<[positions |-> stored[1].positions,
            available_collateral_ae |-> stored[1].available_collateral_ae]>>

\* An object no store entry and no running request refers to is garbage.
Referenced(db, rq) ==
    {db[a] : a \in DOMAIN db} \cup {rq[r].account : r \in Slots}

Collect(h, db, rq) ==
    [o \in DOMAIN h |-> IF o \in Referenced(db, rq) THEN h[o] ELSE <<>>]

NewObj == CHOOSE o \in DOMAIN heap :
    /\ o \notin Referenced(ACCOUNTS_DB, req)
    /\ \A p \in DOMAIN heap : p < o => p \in Referenced(ACCOUNTS_DB, req)

\* The thread r after its request: idle, its reference to the account dropped.
Idle(rq, r) == [rq EXCEPT ![r] = IdleRequest]

\* One step of a thread: the stores, the objects and the requests after it.
Step(rq, k, db, h) ==
    /\ kv' = k
    /\ ACCOUNTS_DB' = db
    /\ heap' = Collect(h, db, rq)
    /\ req' = rq
    /\ UNCHANGED <<USING_KV, nreq, call_vars, feed_vars, history_vars>>

\* No account stored for the addresses followed, no request in flight.
NoAccountsOf(addresses) ==
    /\ kv = [a \in addresses |-> <<>>]
    /\ ACCOUNTS_DB = [a \in addresses |-> 0]
    /\ heap = [o \in 1..(Cardinality(addresses) + Cardinality(Slots)) |-> <<>>]
    /\ req = [r \in Slots |-> IdleRequest]
    /\ last = NoResponse
    /\ nreq = 0
    /\ nextId = 1

NoAccounts == NoAccountsOf(Addresses)

NoCall == args = <<>> /\ result = <<>>

\* The feed where its state is not followed: the account service takes its
\* quotes from get_oracle_price(asset), the set of values a call can return.
NoFeed ==
    /\ base_prices = <<>>
    /\ REAL_PRICES_LOADED = FALSE
    /\ interval = 0
    /\ rng = <<>>
    /\ oracle_url = FALSE

\* The recorded history where it is not followed.
NoHistory ==
    /\ RECORDED_PRICE_HISTORY = <<>>
    /\ KV_AVAILABLE = FALSE
    /\ history_kv = <<>>
    /\ seeding = <<>>

Init ==
    /\ USING_KV \in BOOLEAN
    /\ NoAccounts
    /\ NoCall
    /\ NoFeed
    /\ NoHistory

\* ------------------------------------------------------------ state.py
\* db.get_account as the first statement of get_or_create_account, for a
\* request the thread r has just received.  In KV mode kv.get may raise; the
\* handler of the exception returns None, as a miss does.  A stored JSON text
\* is parsed into a new object; the in-memory store hands out the stored
\* object itself.
get_account(r, op, address) ==
    \E raised \in (IF USING_KV /\ kv[address] # <<>> THEN BOOLEAN ELSE {FALSE}) :
        LET hit  == USING_KV /\ ~raised /\ kv[address] # <<>>
            obj  == IF USING_KV THEN (IF hit THEN NewObj ELSE 0) ELSE ACCOUNTS_DB[address]
        IN  /\ req' = [req EXCEPT ![r] = [IdleRequest EXCEPT
                            !.pc = "loaded", !.op = op, !.user_address = address,
                            !.account = obj, !.get_raised = raised]]
            /\ heap' = IF hit THEN [heap EXCEPT ![obj] = <<model_validate_json(kv[address][1])>>]
                       ELSE heap
            /\ last' = NoResponse
            /\ UNCHANGED <<USING_KV, kv, ACCOUNTS_DB, nextId, call_vars, feed_vars, history_vars>>

\* db.save_account: the stores after the call.  In KV mode kv.set may raise
\* (ok = FALSE): the exception is caught, False is returned and nothing is
\* stored.  The in-memory store binds the address to the object.
save_account_ok == IF USING_KV THEN BOOLEAN ELSE {TRUE}

\* A store with one entry for all addresses; C26 does not hold with it.
save_account_kv_one_key(k, account, ok) ==
    IF USING_KV /\ ok THEN [a \in DOMAIN k |-> <<model_dump_json(account)>>]
    ELSE k

save_account_kv(k, account, ok) ==
    IF USING_KV /\ ok THEN [k EXCEPT ![account.address] = <<model_dump_json(account)>>]
    ELSE k

save_account_db(db, address, obj) ==
    IF USING_KV THEN db ELSE [db EXCEPT ![address] = obj]

\* ------------------------------------------------------------ index.py
\* The threads of the pool are interchangeable: a request is taken by the
\* idle thread of least index.  Its user_address is one of the addresses the
\* stores are followed for.
Receive(r, op) ==
    /\ ~InFlight(r)
    /\ \A s \in Slots : s < r => InFlight(s)
    /\ nreq < MaxRequests
    /\ nreq' = nreq + 1
    /\ \E address \in DOMAIN kv : get_account(r, op, address)

open_position_request(r) == Receive(r, "open")

close_position_request(r) == Receive(r, "close")

get_account_state_request(r) == Receive(r, "read")

\* get_or_create_account after db.get_account has returned: a new account for
\* an address the store gave nothing for, the refreshed balance for one it
\* gave, and db.save_account (whose result is dropped) in both cases.  The
\* value is the account object with the stores and objects after the call.
get_or_create_account(r, ok) ==
    LET address == req[r].user_address
        on_chain_balance == get_on_chain_balance(address)
        obj == IF req[r].account = 0 THEN NewObj ELSE req[r].account
        account == IF req[r].account = 0
                   THEN Account(address, on_chain_balance, on_chain_balance, <<>>)
                   ELSE [heap[obj][1] EXCEPT !.on_chain_balance_ae = on_chain_balance]
    IN  [obj |-> obj, account |-> account,
         h  |-> [heap EXCEPT ![obj] = <<account>>],
         k  |-> save_account_kv(kv, account, ok),
         db |-> save_account_db(ACCOUNTS_DB, address, obj)]

\* The float quotient a / b, for b # 0 and the operands the inputs produce.
Quotient(a, b) == a \div b

InsufficientCollateral(collateral_to_use_ae, available_collateral_ae) ==
    collateral_to_use_ae > available_collateral_ae

\* A guard that lets the 0.0 sentinel through; C8 does not hold with it.
PriceUnavailableNegativeOnly(entry_price) == entry_price < 0

\* if entry_price == 0: raise HTTPException(500, "Could not fetch oracle price")
PriceUnavailable(entry_price) == entry_price = 0

\* A size that leaves the leverage out; C12 does not hold with it.
PositionSizeUsdUnlevered(collateral_to_use_ae, entry_price, leverage) ==
    collateral_to_use_ae * entry_price

\* position_size_usd = request.collateral_to_use_ae * entry_price * request.leverage
PositionSizeUsd(collateral_to_use_ae, entry_price, leverage) ==
    collateral_to_use_ae * entry_price * leverage

\* The two sides taken for each other; C13 does not hold with it.
LiquidationPriceSidesSwapped(entry_price, leverage, side) ==
    IF side = "short"
    THEN Quotient(entry_price * (leverage - 1), leverage)
    ELSE Quotient(entry_price * (leverage + 1), leverage)

\* liquidation_price = entry_price * (1 - (1 / request.leverage)) if
\* request.side == 'long' else entry_price * (1 + (1 / request.leverage))
LiquidationPrice(entry_price, leverage, side) ==
    IF side = "long"
    THEN Quotient(entry_price * (leverage - 1), leverage)
    ELSE Quotient(entry_price * (leverage + 1), leverage)

PnlAe(pnl_usd, closing_price) == Quotient(pnl_usd, closing_price)

\* A settlement that caps the loss at the collateral; C10 does not hold with it.
SettleLossCapped(available_collateral_ae, collateral_ae, pnl_ae) ==
    available_collateral_ae +
        (IF collateral_ae + pnl_ae < 0 THEN 0 ELSE collateral_ae + pnl_ae)

\* account.available_collateral_ae += position_to_close.collateral_ae + pnl_ae
Settle(available_collateral_ae, collateral_ae, pnl_ae) ==
    available_collateral_ae + collateral_ae + pnl_ae

Without(positions, position_id) ==
    SelectSeq(positions, LAMBDA p : p.id # position_id)

\* next((p for p in account.positions if p.id == position_id), None)
FindPosition(positions, position_id) ==
    IF \E i \in 1..Len(positions) : positions[i].id = position_id
    THEN <<positions[CHOOSE i \in 1..Len(positions) :
                /\ positions[i].id = position_id
                /\ \A j \in 1..(i - 1) : positions[j].id # position_id]>>
    ELSE <<>>

\* open_position up to the request for the quote: get_or_create_account and
\* the collateral check, for a collateral_to_use_ae among collaterals.
open_position_validate_for(r, collaterals) ==
    /\ req[r].pc = "loaded" /\ req[r].op = "open"
    /\ \E ok \in save_account_ok, collateral_to_use_ae \in collaterals :
        LET got == get_or_create_account(r, ok)
        IN  IF InsufficientCollateral(collateral_to_use_ae,
                                      got.account.available_collateral_ae)
            THEN /\ Step(Idle(req, r), got.k, got.db, got.h)
                 /\ last' = Response("open", 400, "Insufficient available collateral",
                                     collateral_to_use_ae, <<>>, 0, 0, ok)
            ELSE /\ Step([req EXCEPT ![r].pc = "validated", ![r].account = got.obj,
                                        ![r].collateral_to_use_ae = collateral_to_use_ae],
                         got.k, got.db, got.h)
                 /\ last' = NoResponse
    /\ nextId' = nextId

open_position_validate(r) == open_position_validate_for(r, CollateralValues)

\* open_position from the quote on: the position is built and appended, the
\* collateral deducted, the account saved, the trade recorded and the
\* response returned.
open_position_commit(r) ==
    /\ req[r].pc = "validated"
    /\ \E asset \in Assets : \E entry_price \in get_oracle_price(asset) :
       \E side \in IF PriceUnavailable(entry_price) THEN {"long"} ELSE Sides,
          leverage \in IF PriceUnavailable(entry_price) THEN {1} ELSE LeverageValues,
          ok \in IF PriceUnavailable(entry_price) THEN {TRUE} ELSE save_account_ok :
        LET obj == req[r].account
            collateral_to_use_ae == req[r].collateral_to_use_ae
            new_position ==
                Position(nextId, asset, side,
                         PositionSizeUsd(collateral_to_use_ae, entry_price, leverage),
                         collateral_to_use_ae, leverage, entry_price,
                         LiquidationPrice(entry_price, leverage, side))
            account == [heap[obj][1] EXCEPT
                !.positions = Append(@, new_position),
                !.available_collateral_ae = @ - collateral_to_use_ae]
        IN  IF PriceUnavailable(entry_price)
            THEN /\ Step(Idle(req, r), kv, ACCOUNTS_DB, heap)
                 /\ last' = Response("open", 500, "Could not fetch oracle price",
                                     collateral_to_use_ae, <<>>, 0, entry_price, TRUE)
                 /\ nextId' = nextId
            ELSE /\ Step(Idle(req, r), save_account_kv(kv, account, ok),
                         save_account_db(ACCOUNTS_DB, req[r].user_address, obj),
                         [heap EXCEPT ![obj] = <<account>>])
                 /\ last' = Response("open", 200, "Position opened successfully",
                                     collateral_to_use_ae, <<new_position>>, 0, entry_price, ok)
                 /\ nextId' = nextId + 1

\* close_position up to the request for the closing quote:
\* get_or_create_account and the lookup of the position.
close_position_find(r) ==
    /\ req[r].pc = "loaded" /\ req[r].op = "close"
    /\ \E ok \in save_account_ok, position_id \in 0..(nextId - 1) :
        LET got == get_or_create_account(r, ok)
            position_to_close == FindPosition(got.account.positions, position_id)
        IN  IF position_to_close = <<>>
            THEN /\ Step(Idle(req, r), got.k, got.db, got.h)
                 /\ last' = Response("close", 404, "Position not found",
                                     position_id, <<>>, 0, 0, ok)
            ELSE /\ Step([req EXCEPT ![r].pc = "found", ![r].account = got.obj,
                                        ![r].position_to_close = position_to_close],
                         got.k, got.db, got.h)
                 /\ last' = NoResponse
    /\ nextId' = nextId

\* close_position from the closing quote on: the PnL is computed and converted
\* (a quote of 0.0 raises ZeroDivisionError, which the framework answers with
\* 500), the account is settled and saved.
close_position_settle(r) ==
    /\ req[r].pc = "found"
    /\ \E closing_price \in get_oracle_price(req[r].position_to_close[1].asset) :
       \E ok \in IF closing_price = 0 THEN {TRUE} ELSE save_account_ok :
        LET obj == req[r].account
            position_to_close == req[r].position_to_close[1]
            pnl_data == calculate_position_pnl(position_to_close.size_usd,
                            position_to_close.entry_price, closing_price,
                            position_to_close.side)
            pnl_ae == PnlAe(pnl_data.pnl_usd, closing_price)
            account == [heap[obj][1] EXCEPT
                !.available_collateral_ae =
                    Settle(@, position_to_close.collateral_ae, pnl_ae),
                !.positions = Without(@, position_to_close.id)]
        IN  IF closing_price = 0
            THEN /\ Step(Idle(req, r), kv, ACCOUNTS_DB, heap)
                 /\ last' = Response("close", 500, "Internal Server Error",
                                     position_to_close.id, <<>>, 0, closing_price, TRUE)
            ELSE /\ Step(Idle(req, r), save_account_kv(kv, account, ok),
                         save_account_db(ACCOUNTS_DB, req[r].user_address, obj),
                         [heap EXCEPT ![obj] = <<account>>])
                 /\ last' = Response("close", 200, "Position closed",
                                     position_to_close.id, <<>>, pnl_ae, closing_price, ok)
    /\ nextId' = nextId

\* The loop of get_account_state: the unrealized fields of each position of
\* the account object are recomputed, position i against the quote
\* prices[i].  The loop stops at the first quote of 0.0: unrealized_pnl_usd of
\* that position is already assigned when the division raises.  Revalued
\* gives the positions after the loop.
\* A read that marks every position to the quote; C27 does not hold with it.
RevaluedAtQuote(positions, prices, i) ==
    [j \in 1..Len(positions) |->
        [positions[j] EXCEPT !.entry_price = prices[j], !.current_price = <<prices[j]>>]]

RECURSIVE Revalued(_, _, _)
Revalued(positions, prices, i) ==
    IF i > Len(positions) THEN positions
    ELSE LET position == positions[i]
             pnl_data == calculate_position_pnl(position.size_usd, position.entry_price,
                                                prices[i], position.side)
         IN  IF prices[i] = 0
             THEN [positions EXCEPT ![i].unrealized_pnl_usd = pnl_data.pnl_usd]
             ELSE Revalued([positions EXCEPT
                               ![i].unrealized_pnl_usd = pnl_data.pnl_usd,
                               ![i].unrealized_pnl_ae = PnlAe(pnl_data.pnl_usd, prices[i]),
                               ![i].current_price = <<prices[i]>>],
                           prices, i + 1)

\* get_account_state up to the first quote: get_or_create_account.
get_account_state_account(r) ==
    /\ req[r].pc = "loaded" /\ req[r].op = "read"
    /\ \E ok \in save_account_ok :
        LET got == get_or_create_account(r, ok)
        IN  Step([req EXCEPT ![r].pc = "account", ![r].account = got.obj],
                 got.k, got.db, got.h)
    /\ last' = NoResponse
    /\ nextId' = nextId

\* get_account_state from the quotes on: the loop and the response.
get_account_state(r) ==
    /\ req[r].pc = "account"
    /\ LET obj == req[r].account
           positions == heap[obj][1].positions
       IN  \E prices \in [1..Len(positions) -> UNION {get_oracle_price(a) : a \in Assets}] :
            /\ \A i \in 1..Len(positions) : prices[i] \in get_oracle_price(positions[i].asset)
            /\ Step(Idle(req, r), kv, ACCOUNTS_DB,
                    [heap EXCEPT ![obj] = <<[heap[obj][1] EXCEPT
                                               !.positions = Revalued(positions, prices, 1)]>>])
            /\ last' = IF \E i \in 1..Len(positions) : prices[i] = 0
                       THEN Response("read", 500, "Internal Server Error", 0, <<>>, 0, 0, TRUE)
                       ELSE Response("read", 200, "account", 0, <<>>, 0, 0, TRUE)
    /\ nextId' = nextId

Next ==
    \E r \in Slots :
        \/ open_position_request(r)
        \/ close_position_request(r)
        \/ get_account_state_request(r)
        \/ open_position_validate(r)
        \/ open_position_commit(r)
        \/ close_position_find(r)
        \/ close_position_settle(r)
        \/ get_account_state_account(r)
        \/ get_account_state(r)

Spec == Init /\ [][Next]_vars

\* ------------------------------------- index.py: any float as collateral
\* collateral_to_use_ae is declared float: the same service with requests
\* that ask for a negative collateral and for one above the balance.
SignedCollateralValues == {0 - 600, 1200}

open_position_validate_signed(r) == open_position_validate_for(r, SignedCollateralValues)

SignedNext ==
    \E r \in Slots :
        \/ open_position_request(r)
        \/ close_position_request(r)
        \/ get_account_state_request(r)
        \/ open_position_validate_signed(r)
        \/ open_position_commit(r)
        \/ close_position_find(r)
        \/ close_position_settle(r)
        \/ get_account_state_account(r)
        \/ get_account_state(r)

SignedSpec == Init /\ [][SignedNext]_vars

\* ---------------------------------------- index.py: two user addresses
\* The same service with requests for two addresses: the stores are keyed by
\* the address (kv.set(account.address, ...), ACCOUNTS_DB[account.address]).
TwoAddresses == {"ak_1", "ak_2"}

TwoInit ==
    /\ USING_KV \in BOOLEAN
    /\ NoAccountsOf(TwoAddresses)
    /\ NoCall
    /\ NoFeed
    /\ NoHistory

TwoSpec == TwoInit /\ [][Next]_vars

\* ------------------------------------------- state.py: the two backends
\* state.py imported twice, side by side: once with REDIS_URL set, its store
\* being kv, and once without, its store being ACCOUNTS_DB.  One caller makes
\* the same calls on both, without backend failure, and holds the account
\* object each gave it: args.kv_account is the object parsed for it (its
\* own, so kept by value), args.db_account the object of the in-memory
\* store.  result is the pair of what the two calls returned.  USING_KV, the
\* flag of a single import, is not followed here.
Balances == {400, 1000}

kv_get_account(k, address) ==
    IF k[address] # <<>> THEN <<model_validate_json(k[address][1])>> ELSE <<>>

db_get_account(db, address) == db[address]

kv_save_account(k, account) ==
    [k EXCEPT ![account.address] = <<model_dump_json(account)>>]

db_save_account(db, account, obj) == [db EXCEPT ![account.address] = obj]

kv_delete_account(k, address) ==
    [store |-> [k EXCEPT ![address] = <<>>], returned |-> TRUE]

db_delete_account(db, address) ==
    IF db[address] # 0
    THEN [store |-> [db EXCEPT ![address] = 0], returned |-> TRUE]
    ELSE [store |-> db, returned |-> FALSE]

\* The object of the in-memory side the caller or the store refers to.
StoreNewObj == CHOOSE o \in DOMAIN heap :
    /\ o \notin {ACCOUNTS_DB[a] : a \in DOMAIN ACCOUNTS_DB} \cup {args.db_account}
    /\ \A p \in DOMAIN heap :
        p < o => p \in {ACCOUNTS_DB[a] : a \in DOMAIN ACCOUNTS_DB} \cup {args.db_account}

StoreStep(fn, address, kv_account, db_account, k, db, h, returned) ==
    /\ args' = [fn |-> fn, address |-> address,
                kv_account |-> kv_account, db_account |-> db_account]
    /\ kv' = k
    /\ ACCOUNTS_DB' = db
    /\ heap' = [o \in DOMAIN h |->
                   IF o \in {db[a] : a \in DOMAIN db} \cup {db_account} THEN h[o] ELSE <<>>]
    /\ result' = returned
    /\ UNCHANGED <<USING_KV, req, last, nreq, nextId, feed_vars, history_vars>>

\* account = Account(address=...); db.save_account(account)
store_save_new_account ==
    \E address \in DOMAIN kv, balance \in Balances :
        LET account == Account(address, balance, balance, <<>>)
            obj == StoreNewObj
        IN  StoreStep("save_account", address, <<account>>, obj,
                      kv_save_account(kv, account),
                      db_save_account(ACCOUNTS_DB, account, obj),
                      [heap EXCEPT ![obj] = <<account>>],
                      <<[kv |-> TRUE, db |-> TRUE]>>)

\* account = db.get_account(address)
store_get_account ==
    \E address \in DOMAIN kv :
        LET obj == db_get_account(ACCOUNTS_DB, address)
        IN  StoreStep("get_account", address, kv_get_account(kv, address), obj,
                      kv, ACCOUNTS_DB, heap,
                      <<[kv |-> kv_get_account(kv, address),
                         db |-> IF obj = 0 THEN <<>> ELSE heap[obj]]>>)

\* account.available_collateral_ae = ..., on the object the caller holds,
\* with no db.save_account after it.
store_mutate_account ==
    /\ args.kv_account # <<>> /\ args.db_account # 0
    /\ \E available \in Balances :
        StoreStep("mutate", args.address,
                  <<[args.kv_account[1] EXCEPT !.available_collateral_ae = available]>>,
                  args.db_account, kv, ACCOUNTS_DB,
                  [heap EXCEPT ![args.db_account] =
                      <<[heap[args.db_account][1] EXCEPT !.available_collateral_ae = available]>>],
                  <<>>)

\* db.save_account(account), for the object the caller holds.
store_save_account ==
    /\ args.kv_account # <<>> /\ args.db_account # 0
    /\ StoreStep("save_account", args.address, args.kv_account, args.db_account,
                 kv_save_account(kv, args.kv_account[1]),
                 db_save_account(ACCOUNTS_DB, heap[args.db_account][1], args.db_account),
                 heap, <<[kv |-> TRUE, db |-> TRUE]>>)

\* db.delete_account(address); the caller's reference goes with the call.
store_delete_account ==
    \E address \in DOMAIN kv :
        LET k == kv_delete_account(kv, address)
            db == db_delete_account(ACCOUNTS_DB, address)
        IN  StoreStep("delete_account", address, <<>>, 0, k.store, db.store, heap,
                      <<[kv |-> k.returned, db |-> db.returned]>>)

StoreInit ==
    /\ USING_KV = FALSE
    /\ NoAccountsOf(TwoAddresses)
    /\ args = [fn |-> "none", address |-> "", kv_account |-> <<>>, db_account |-> 0]
    /\ result = <<>>
    /\ NoFeed
    /\ NoHistory

StoreNext ==
    \/ store_save_new_account
    \/ store_get_account
    \/ store_mutate_account
    \/ store_save_account
    \/ store_delete_account

StoreSpec == StoreInit /\ [][StoreNext]_vars

\* ------------------------------------------- index.py: the account read
\* get_account_state returns the Account object; the framework builds the
\* response from it (response_model=Account) once the handler has returned,
\* while the other thread goes on.  Here the read is followed to that point:
\* the loop with the quotes it fetched, then the response.
ReadResponse(account, quotes) ==
    [op |-> "read", status |-> 200, detail |-> "account", asked |-> 0,
     position |-> <<>>, realized_pnl_ae |-> 0, price |-> 0, saved |-> TRUE,
     account |-> account, quotes |-> quotes]

\* get_account_state from the quotes to its return statement.
get_account_state_loop(r) ==
    /\ req[r].pc = "account"
    /\ LET obj == req[r].account
           positions == heap[obj][1].positions
       IN  \E prices \in [1..Len(positions) -> UNION {get_oracle_price(a) : a \in Assets}] :
            /\ \A i \in 1..Len(positions) : prices[i] \in get_oracle_price(positions[i].asset)
            /\ IF \E i \in 1..Len(positions) : prices[i] = 0
               THEN /\ Step(Idle(req, r), kv, ACCOUNTS_DB,
                            [heap EXCEPT ![obj] = <<[heap[obj][1] EXCEPT
                                        !.positions = Revalued(positions, prices, 1)]>>])
                    /\ last' = Response("read", 500, "Internal Server Error",
                                        0, <<>>, 0, 0, TRUE)
               ELSE /\ Step([req EXCEPT ![r].pc = "returned", ![r].quotes = prices],
                            kv, ACCOUNTS_DB,
                            [heap EXCEPT ![obj] = <<[heap[obj][1] EXCEPT
                                        !.positions = Revalued(positions, prices, 1)]>>])
                    /\ last' = NoResponse
    /\ nextId' = nextId

\* The response of get_account_state: the account object as it is when the
\* framework serializes it.
get_account_state_response(r) ==
    /\ req[r].pc = "returned"
    /\ Step(Idle(req, r), kv, ACCOUNTS_DB, heap)
    /\ last' = ReadResponse(heap[req[r].account][1], req[r].quotes)
    /\ nextId' = nextId

ReadNext ==
    \E r \in Slots :
        \/ open_position_request(r)
        \/ close_position_request(r)
        \/ get_account_state_request(r)
        \/ open_position_validate(r)
        \/ open_position_commit(r)
        \/ close_position_find(r)
        \/ close_position_settle(r)
        \/ get_account_state_account(r)
        \/ get_account_state_loop(r)
        \/ get_account_state_response(r)

ReadSpec == Init /\ [][ReadNext]_vars

\* ------------------------------------------------------------- main.py
\* The first entry point of the service: one process, the accounts in the
\* dictionary ACCOUNTS_DB of state.py, the mock feed of aeternity_client.py.
\* Each handler is taken as one step (no other request runs inside it).
MaxMainRequests == 3

\* backend/aeternity_client.py: get_oracle_price has the mock branch only.
main_get_oracle_price(asset) == MockQuotes(asset)

\* main.py: get_or_create_account.  The value is the account object with the
\* dictionary after the call.
main_get_or_create_account(address) ==
    LET on_chain_balance == get_on_chain_balance(address)
        known == ACCOUNTS_DB[address] # 0
        obj == IF known THEN ACCOUNTS_DB[address] ELSE NewObj
        account == IF known THEN heap[obj][1]
                   ELSE Account(address, on_chain_balance, on_chain_balance, <<>>)
    IN  [obj |-> obj,
         account |-> [account EXCEPT !.on_chain_balance_ae = on_chain_balance],
         db |-> [ACCOUNTS_DB EXCEPT ![address] = obj]]

\* pnl_usd of main.py's close_position: one formula for both sides.
main_pnl_usd(position, closing_price) ==
    (closing_price - position.entry_price)
        * Quotient(position.size_usd, position.entry_price)

\* One handler call of main.py: the dictionary, the account object and the
\* response after it.
MainStep(got, account, response) ==
    /\ nreq < MaxMainRequests
    /\ nreq' = nreq + 1
    /\ ACCOUNTS_DB' = got.db
    /\ heap' = [heap EXCEPT ![got.obj] = <<account>>]
    /\ last' = response
    /\ UNCHANGED <<USING_KV, kv, req, call_vars, feed_vars, history_vars>>

main_open_position ==
    \E address \in Addresses, collateral_to_use_ae \in CollateralValues,
       asset \in Assets, side \in Sides, leverage \in LeverageValues :
    \E entry_price \in main_get_oracle_price(asset) :
        LET got == main_get_or_create_account(address)
            new_position ==
                Position(nextId, asset, side,
                         PositionSizeUsd(collateral_to_use_ae, entry_price, leverage),
                         collateral_to_use_ae, leverage, entry_price,
                         LiquidationPrice(entry_price, leverage, side))
        IN  IF InsufficientCollateral(collateral_to_use_ae,
                                      got.account.available_collateral_ae)
            THEN /\ MainStep(got, got.account,
                        Response("open", 400, "Insufficient available collateral",
                                 collateral_to_use_ae, <<>>, 0, 0, TRUE))
                 /\ nextId' = nextId
            ELSE IF PriceUnavailable(entry_price)
            THEN /\ MainStep(got, got.account,
                        Response("open", 500, "Could not fetch oracle price",
                                 collateral_to_use_ae, <<>>, 0, entry_price, TRUE))
                 /\ nextId' = nextId
            ELSE /\ MainStep(got,
                        [got.account EXCEPT
                            !.positions = Append(@, new_position),
                            !.available_collateral_ae = @ - collateral_to_use_ae],
                        Response("open", 200, "Position opened successfully",
                                 collateral_to_use_ae, <<new_position>>, 0, entry_price, TRUE))
                 /\ nextId' = nextId + 1

main_close_position ==
    /\ \E address \in Addresses, position_id \in 0..(nextId - 1) :
        LET got == main_get_or_create_account(address)
            position_to_close == FindPosition(got.account.positions, position_id)
        IN  IF position_to_close = <<>>
            THEN MainStep(got, got.account,
                     Response("close", 404, "Position not found",
                              position_id, <<>>, 0, 0, TRUE))
            ELSE \E closing_price \in main_get_oracle_price(position_to_close[1].asset) :
                 LET pnl_usd == main_pnl_usd(position_to_close[1], closing_price)
                     pnl_ae == PnlAe(pnl_usd, closing_price)
                 IN  IF closing_price = 0
                     THEN MainStep(got, got.account,
                              Response("close", 500, "Internal Server Error",
                                       position_id, <<>>, 0, closing_price, TRUE))
                     ELSE MainStep(got,
                              [got.account EXCEPT
                                  !.available_collateral_ae =
                                      Settle(@, position_to_close[1].collateral_ae, pnl_ae),
                                  !.positions = Without(@, position_id)],
                              Response("close", 200, "Position closed",
                                       position_id, <<>>, pnl_ae, closing_price, TRUE))
    /\ nextId' = nextId

\* main.py: get_account_state fetches a quote per position and uses none.
main_get_account_state ==
    /\ \E address \in Addresses :
        LET got == main_get_or_create_account(address)
        IN  MainStep(got, got.account,
                Response("read", 200, "account", 0, <<>>, 0, 0, TRUE))
    /\ nextId' = nextId

MainInit == Init /\ ~USING_KV

MainNext ==
    \/ main_open_position
    \/ main_close_position
    \/ main_get_account_state

MainSpec == MainInit /\ [][MainNext]_vars

\* ------------------------------------------------ functions on their own
\* The liquidation price as a function of the quote, the leverage and the
\* side: open_position's expression applied to one set of arguments.  The
\* quotes are multiples of 60 and the leverages whole, which keeps the float
\* quotient exact.
MaxLeverage == 5

MaxEntrySteps == 10

EntryPrices == {60 * k : k \in 1..MaxEntrySteps}

Leverages == 1..MaxLeverage

LiquidationInit ==
    /\ USING_KV = FALSE
    /\ NoAccounts
    /\ NoFeed
    /\ NoHistory
    /\ args \in [entry_price : EntryPrices, leverage : Leverages, side : Sides]
    /\ result = <<>>

liquidation_price ==
    /\ result = <<>>
    /\ result' = <<LiquidationPrice(args.entry_price, args.leverage, args.side)>>
    /\ UNCHANGED <<service_vars, history_vars, args, feed_vars>>

LiquidationSpec == LiquidationInit /\ [][liquidation_price]_vars

\* ------------------------------------------- aeternity_client.py: the feed
\* The price feed with its state: BASE_PRICES, the flag of
\* fetch_real_current_prices, the clock and the generator.  Base prices are in
\* USD, relative changes in 1/10000, quotes in cents (BTC is rounded to two
\* decimals); a call is one step, with the outcomes of its two HTTP requests
\* drawn in it.
MaxInterval == 2

Min(a, b) == IF a <= b THEN a ELSE b

Max(a, b) == IF a >= b THEN a ELSE b

\* BASE_PRICES as the module is imported.
BasePricesAtImport == [a \in BASE_PRICES |-> <<68000>>]

\* VOLATILITY: 0.003 for BTC.
VOLATILITY == [a \in BASE_PRICES |-> 30]

\* random.uniform(-volatility, volatility): the ends and the middle of the
\* range stand for its values.
UniformDraws(volatility) == {-volatility, 0, volatility}

\* The "usd" price CoinGecko's simple/price answers with.
RealPrices == {70001}

\* The price the oracle API answers with, in cents.
OraclePrices == {6800000, 9000000}

Outcome(kind, usd) == [kind |-> kind, usd |-> usd]

\* requests.get of fetch_real_current_prices: an exception (network error,
\* timeout, a body that is not the expected JSON), a status other than 200,
\* 200 without the asset, 200 with "usd": null, 200 with a price.
CoinGeckoOutcomes ==
    {Outcome(k, 0) : k \in {"error", "status", "empty", "null"}}
        \cup {Outcome("ok", p) : p \in RealPrices}

\* No request is made.
NoRequest == Outcome("none", 0)

\* What the request of fetch_real_current_prices can give: it is made only
\* while _REAL_PRICES_LOADED is false.
CoinGeckoRequest == IF REAL_PRICES_LOADED THEN {NoRequest} ELSE CoinGeckoOutcomes

\* requests.get of get_oracle_price: an exception, a status other than 200,
\* 200 without a price for the asset, 200 with one.
OracleOutcomes ==
    {Outcome(k, 0) : k \in {"error", "status", "missing"}}
        \cup {Outcome("ok", p) : p \in OraclePrices}

\* What the request of get_oracle_price can give: it is made only when
\* ORACLE_API_URL is set.
OracleRequest == IF oracle_url THEN OracleOutcomes ELSE {NoRequest}

\* fetch_real_current_prices where BASE_PRICES is bases and
\* _REAL_PRICES_LOADED is loaded: the two after it.
fetched_prices(bases, loaded, cg) ==
    IF loaded \/ cg.kind \in {"none", "error", "status"}
    THEN [base_prices |-> bases, loaded |-> loaded]
    ELSE [base_prices |->
            [a \in DOMAIN bases |->
                CASE cg.kind = "ok" -> <<cg.usd>>
                  [] cg.kind = "null" -> <<>>
                  [] OTHER -> bases[a]],
          loaded |-> TRUE]

\* fetch_real_current_prices: BASE_PRICES and _REAL_PRICES_LOADED after it.
fetch_real_current_prices(cg) == fetched_prices(base_prices, REAL_PRICES_LOADED, cg)

\* A loop with one iteration per window of the hundred; C30 does not hold
\* with it.
IterationsPerWindow(i) == i % 100

\* for _ in range(min(interval % 100, 20))
Iterations(i) == Min(i % 100, 20)

\* The loop of get_oracle_price: n draws, each right after
\* random.seed(temp_seed * hash(asset)), temp_seed counting down.
RECURSIVE cumulative_change(_, _, _)
cumulative_change(asset, temp_seed, n) ==
    IF n = 0 THEN 0
    ELSE rng[<<asset, temp_seed>>] + cumulative_change(asset, temp_seed - 1, n - 1)

\* round(x, ndigits) of a non-negative x = n / d units: the nearest unit,
\* a tie to the even one.
RoundHalfEven(n, d) ==
    LET q == n \div d
        r == n % d
    IN  IF 2 * r < d THEN q
        ELSE IF 2 * r > d THEN q + 1
        ELSE IF q % 2 = 0 THEN q ELSE q + 1

\* The mock branch of get_oracle_price for the base prices bases: 0.0 for an
\* asset outside BASE_PRICES, TypeError for a base price of None, else the
\* base price moved by the cumulative change, kept within 0.9 and 1.1 of it
\* and rounded.
mock_price(asset, bases) ==
    IF asset \notin DOMAIN bases THEN [raised |-> FALSE, value |-> 0]
    ELSE IF bases[asset] = <<>> THEN [raised |-> TRUE, value |-> 0]
    ELSE LET base_price == bases[asset][1]
             current_price ==
                 base_price * (10000 + cumulative_change(asset, interval,
                                                         Iterations(interval)))
             min_price == base_price * 9000
             max_price == base_price * 11000
         IN  [raised |-> FALSE,
              value |-> RoundHalfEven(Max(min_price, Min(max_price, current_price)), 100)]

\* get_oracle_price(asset) for the outcomes cg and oracle of its requests.
oracle_price(asset, cg, oracle) ==
    LET fetched == fetch_real_current_prices(cg)
        mock == mock_price(asset, fetched.base_prices)
    IN  IF oracle_url /\ oracle.kind = "ok"
        THEN [raised |-> FALSE, value |-> oracle.usd, fetched |-> fetched]
        ELSE [raised |-> mock.raised, value |-> mock.value, fetched |-> fetched]

\* A call of get_oracle_price; args and result keep the latest call.
get_oracle_price_call ==
    \E asset \in Assets, cg \in CoinGeckoRequest, oracle \in OracleRequest :
        LET got == oracle_price(asset, cg, oracle)
        IN  /\ args' = [fn |-> "get_oracle_price", asset |-> asset, interval |-> interval]
            /\ result' = <<[raised |-> got.raised, value |-> got.value]>>
            /\ base_prices' = got.fetched.base_prices
            /\ REAL_PRICES_LOADED' = got.fetched.loaded
            /\ UNCHANGED <<service_vars, history_vars, interval, rng, oracle_url>>

\* Five seconds pass.
Tick ==
    /\ interval < MaxInterval
    /\ interval' = interval + 1
    /\ UNCHANGED <<service_vars, history_vars, call_vars, base_prices,
                   REAL_PRICES_LOADED, rng, oracle_url>>

\* The limit and the interval a caller of get_price_history passes.
Limits == {0, 2}

Intervals == {"1m", "5m"}

\* Times are counted in 5-second windows: current_time is the window the
\* clock is in, and interval_ms = 5 * 60 * 1000 is 60 windows.
interval_ms == 60

\* 1.0 + (random.random() * 0.04 - 0.02), in 1/10000: random.random() is in
\* [0, 1), so the variation is in [0.98, 1.02): the ends of the range stand
\* for its values.
Variations == {9800, 10199}

\* The "prices" CoinGecko's market_chart answers with, oldest first, in tenths
\* of a cent.
MarketPrices == {<<67900004>>, <<67900004, 68100005, 68000015>>}

MarketOutcome(kind, prices) == [kind |-> kind, prices |-> prices]

\* requests.get of get_price_history: Timeout, another RequestException, an
\* exception of another class (a body that is not JSON, an entry that is not
\* a pair), a status other than 200, 200 without prices, 200 with prices.
MarketOutcomes ==
    {MarketOutcome(k, <<>>) : k \in {"timeout", "network", "malformed", "status", "empty"}}
        \cup {MarketOutcome("ok", ps) : ps \in MarketPrices}

\* What the request of get_price_history can give: it is made only for an
\* asset of coingecko_ids, the assets of BASE_PRICES.
MarketRequest(asset) ==
    IF asset \in BASE_PRICES THEN MarketOutcomes ELSE {MarketOutcome("none", <<>>)}

\* Whether get_price_history ends in generate_fallback_history.
FallsBack(asset, market) == asset \notin BASE_PRICES \/ market.kind \notin {"empty", "ok"}

\* One entry of a history: the price is open, high, low and close.
Candle(timestamp, price) ==
    [timestamp |-> timestamp, open |-> price, high |-> price, low |-> price,
     close |-> price]

\* prices[-limit:]: the last limit items; all of them for a limit of 0,
\* which makes the slice prices[0:]; all but the first -limit for a
\* negative limit.
LastItems(prices, limit) ==
    IF limit = 0 \/ limit >= Len(prices) THEN prices
    ELSE IF limit < 0 THEN SubSeq(prices, 1 - limit, Len(prices))
    ELSE SubSeq(prices, Len(prices) - limit + 1, Len(prices))

\* generate_fallback_history(asset, limit) called at current_time:
\* variation[i] is the variation drawn for point i.
generate_fallback_history(asset, limit, cg, variation, current_time) ==
    LET fetched == fetch_real_current_prices(cg)
        bases == fetched.base_prices
    IN  IF asset \notin DOMAIN bases \/ limit <= 0
        THEN [raised |-> FALSE, value |-> <<>>, fetched |-> fetched]
        ELSE IF bases[asset] = <<>>
        THEN [raised |-> TRUE, value |-> <<>>, fetched |-> fetched]
        ELSE [raised |-> FALSE,
              value |-> [i \in 1..limit |->
                            Candle(current_time - ((limit - i) * interval_ms),
                                   RoundHalfEven(bases[asset][1] * variation[i], 100))],
              fetched |-> fetched]

\* get_price_history(asset, interval, limit) called at current_time, for the
\* outcome market of its request.  The interval argument is not read.  The
\* prices CoinGecko answers with are 5 minutes apart, the last one current.
price_history(asset, interval_arg, limit, market, cg, variation, current_time) ==
    IF asset \notin BASE_PRICES
    THEN generate_fallback_history(asset, limit, cg, variation, current_time)
    ELSE IF market.kind = "empty"
    THEN [raised |-> FALSE, value |-> <<>>,
          fetched |-> [base_prices |-> base_prices, loaded |-> REAL_PRICES_LOADED]]
    ELSE IF market.kind = "ok"
    THEN LET kept == LastItems(market.prices, limit)
         IN  [raised |-> FALSE,
              value |-> [i \in 1..Len(kept) |->
                            Candle(current_time - ((Len(kept) - i) * interval_ms),
                                   RoundHalfEven(kept[i], 10))],
              fetched |-> [base_prices |-> base_prices, loaded |-> REAL_PRICES_LOADED]]
    ELSE generate_fallback_history(asset, limit, cg, variation, current_time)

\* A call of get_price_history.
get_price_history_call ==
    \E asset \in Assets, interval_arg \in Intervals, limit \in Limits :
      \E market \in MarketRequest(asset) :
      \E cg \in IF FallsBack(asset, market) THEN CoinGeckoRequest ELSE {NoRequest} :
      \E variation \in [1..(IF FallsBack(asset, market) /\ asset \in BASE_PRICES
                              THEN limit ELSE 0) -> Variations] :
        LET got == price_history(asset, interval_arg, limit, market, cg, variation,
                                 interval)
        IN  /\ args' = [fn |-> "get_price_history", asset |-> asset,
                        interval |-> interval, interval_arg |-> interval_arg,
                        limit |-> limit, market |-> market.kind]
            /\ result' = <<[raised |-> got.raised, value |-> got.value]>>
            /\ base_prices' = got.fetched.base_prices
            /\ REAL_PRICES_LOADED' = got.fetched.loaded
            /\ UNCHANGED <<service_vars, history_vars, interval, rng, oracle_url>>

FeedInit ==
    /\ USING_KV = FALSE
    /\ NoAccounts
    /\ NoCall
    /\ NoHistory
    /\ base_prices = BasePricesAtImport
    /\ REAL_PRICES_LOADED = FALSE
    /\ interval = 0
    /\ rng \in [BASE_PRICES \X (1..MaxInterval) ->
                    UNION {UniformDraws(VOLATILITY[a]) : a \in BASE_PRICES}]
    /\ oracle_url \in BOOLEAN

FeedNext ==
    \/ get_oracle_price_call
    \/ get_price_history_call
    \/ Tick

FeedSpec == FeedInit /\ [][FeedNext]_vars

\* ---------------------------------------- aeternity_client.py: 24h stats
\* get_24h_stats in two steps, cut where it waits for the history: the quote,
\* then the history and the statistics.  Prices are in cents, percentages in
\* hundredths of a percent.

\* limit=24 of the get_price_history call.
stats_limit == 24

\* The variations of the 24 synthesized points: the first, the last and the
\* ones between them share a value.
StatsVariations ==
    {[i \in 1..stats_limit |-> IF i = 1 THEN first ELSE IF i = stats_limit THEN final ELSE middle] :
        first \in Variations, middle \in Variations, final \in Variations}

\* The "prices" of market_chart, in tenths of a cent: 25 prices that never
\* move, 25 that move and hold a price of 0, and 3 prices.
StatsMarketPrices ==
    {[i \in 1..(stats_limit + 1) |-> 68000000],
     [i \in 1..(stats_limit + 1) |-> IF i = 2 THEN 0 ELSE 67000000 + (i * 100005)],
     <<67900004, 68100005, 68000015>>}

StatsMarketOutcomes ==
    {MarketOutcome(k, <<>>) : k \in {"timeout", "network", "malformed", "status", "empty"}}
        \cup {MarketOutcome("ok", ps) : ps \in StatsMarketPrices}

RECURSIVE MaxOf(_, _)
MaxOf(xs, x) == IF xs = <<>> THEN x ELSE MaxOf(Tail(xs), Max(Head(xs), x))

RECURSIVE MinOf(_, _)
MinOf(xs, x) == IF xs = <<>> THEN x ELSE MinOf(Tail(xs), Min(Head(xs), x))

\* The newest point taken for the oldest; C23 does not hold with it.
price_24h_ago_newest(history_24h) == history_24h[Len(history_24h)].open

\* price_24h_ago = history_24h[0]["open"]
price_24h_ago(history_24h) == history_24h[1].open

\* round(change_24h / price_24h_ago * 100, 2) if price_24h_ago != 0 else 0,
\* the quotient taken in two steps of long division.
change_percent_24h(change_24h, open_24h) ==
    IF open_24h = 0 THEN 0
    ELSE LET whole == (change_24h * 100) \div open_24h
             rest == (change_24h * 100) % open_24h
         IN  (whole * 100) + RoundHalfEven(rest * 100, open_24h)

Stats(high_24h, low_24h, open_24h, change_24h, percent) ==
    [high_24h |-> high_24h, low_24h |-> low_24h, open_24h |-> open_24h,
     change_24h |-> change_24h, change_percent_24h |-> percent]

\* High and low taken over the history alone; C37 does not hold with it.
stats_24h_of_history(current_price, history_24h) ==
    IF history_24h = <<>>
    THEN Stats(current_price, current_price, current_price, 0, 0)
    ELSE LET highs == [i \in 1..Len(history_24h) |-> history_24h[i].high]
             lows == [i \in 1..Len(history_24h) |-> history_24h[i].low]
             open_24h == price_24h_ago(history_24h)
             change_24h == current_price - open_24h
         IN  Stats(MaxOf(Tail(highs), Head(highs)), MinOf(Tail(lows), Head(lows)),
                   open_24h, change_24h, change_percent_24h(change_24h, open_24h))

\* The statistics get_24h_stats returns for a quote and a history.
stats_24h(current_price, history_24h) ==
    IF history_24h = <<>>
    THEN Stats(current_price, current_price, current_price, 0, 0)
    ELSE LET highs == [i \in 1..Len(history_24h) |-> history_24h[i].high]
             lows == [i \in 1..Len(history_24h) |-> history_24h[i].low]
             open_24h == price_24h_ago(history_24h)
             change_24h == current_price - open_24h
         IN  Stats(MaxOf(highs, current_price), MinOf(lows, current_price), open_24h,
                   change_24h, change_percent_24h(change_24h, open_24h))

\* get_24h_stats up to the request for the history: zeros for an asset
\* outside BASE_PRICES, else the quote of get_oracle_price, whose exception
\* ends the call.
get_24h_stats_price ==
    /\ args = <<>> \/ result # <<>>
    /\ \E asset \in Assets :
        IF asset \notin BASE_PRICES
        THEN /\ args' = [fn |-> "get_24h_stats", asset |-> asset, current_price |-> 0]
             /\ result' = <<[raised |-> FALSE, value |-> Stats(0, 0, 0, 0, 0),
                             history |-> <<>>]>>
             /\ UNCHANGED <<service_vars, history_vars, feed_vars>>
        ELSE \E cg \in CoinGeckoRequest, oracle \in OracleRequest :
            LET got == oracle_price(asset, cg, oracle)
            IN  /\ args' = [fn |-> "get_24h_stats", asset |-> asset,
                            current_price |-> got.value]
                /\ result' = IF got.raised
                             THEN <<[raised |-> TRUE, value |-> Stats(0, 0, 0, 0, 0),
                                     history |-> <<>>]>>
                             ELSE <<>>
                /\ base_prices' = got.fetched.base_prices
                /\ REAL_PRICES_LOADED' = got.fetched.loaded
                /\ UNCHANGED <<service_vars, history_vars, interval, rng, oracle_url>>

\* get_24h_stats from the history on.
get_24h_stats ==
    /\ args # <<>> /\ result = <<>>
    /\ \E market \in StatsMarketOutcomes :
       \E cg \in IF FallsBack(args.asset, market) THEN CoinGeckoRequest ELSE {NoRequest} :
       \E variation \in IF FallsBack(args.asset, market) THEN StatsVariations
                        ELSE {[i \in 1..stats_limit |-> 10000]} :
        LET got == price_history(args.asset, "1h", stats_limit, market, cg, variation,
                                 interval)
        IN  /\ result' = <<[raised |-> got.raised,
                            value |-> IF got.raised THEN Stats(0, 0, 0, 0, 0)
                                      ELSE stats_24h(args.current_price, got.value),
                            history |-> got.value]>>
            /\ base_prices' = got.fetched.base_prices
            /\ REAL_PRICES_LOADED' = got.fetched.loaded
            /\ UNCHANGED <<service_vars, history_vars, args, interval, rng, oracle_url>>

StatsNext ==
    \/ get_24h_stats_price
    \/ get_24h_stats
    \/ Tick

StatsSpec == FeedInit /\ [][StatsNext]_vars

\* ------------------------------------------- index.py: recorded history
\* RECORDED_PRICE_HISTORY with its KV copy, filled by initialize_price_history
\* (at startup, and by /prices/history when it finds the list empty) and by
\* /prices, and served by /prices/history.  The startup call runs before any
\* request is served; a call made by a handler is cut where it waits for
\* get_price_history.  Every /prices request reads the clock later than the
\* one before it.  ORACLE_API_URL is not set (the quotes are the mock feed's)
\* and the draws of the generator share a value.
MAX_HISTORY_POINTS == 1000

\* ae.get_price_history(asset, "1m", 180)
seed_limit == 180

valid_assets == BASE_PRICES

valid_intervals == {"1m", "5m", "15m", "1h", "4h", "1d"}

\* The intervals a client of /prices/history asks for.
AskedIntervals == {"1m", "2m"}

\* The variations of the 180 synthesized points share a value.
SeedVariations == {[i \in 1..seed_limit |-> v] : v \in Variations}

\* What the KV store holds for an asset when the process starts.
StoredHistories == {<<>>, << <<(<<0 - 2, 6790000>>), (<<0 - 1, 6800000>>)>> >>}

\* kv.get and kv.set of index.py can raise; both are caught.
KvRaises == IF KV_AVAILABLE THEN BOOLEAN ELSE {FALSE}

\* No call of initialize_price_history is in progress.
NotSeeding == [pc |-> "idle", asset |-> "", limit |-> 0, history |-> <<>>]

\* load_history_from_kv(asset): whether it loaded, and the list after it.
load_history_from_kv(recorded, asset, raised) ==
    IF KV_AVAILABLE /\ ~raised /\ history_kv[asset] # <<>>
    THEN [loaded |-> TRUE, recorded |-> [recorded EXCEPT ![asset] = history_kv[asset][1]]]
    ELSE [loaded |-> FALSE, recorded |-> recorded]

\* save_history_to_kv(asset): the KV entries after it.
save_history_to_kv(recorded, kvh, asset, raised) ==
    IF KV_AVAILABLE /\ ~raised THEN [kvh EXCEPT ![asset] = <<recorded[asset]>>]
    ELSE kvh

\* (point["timestamp"], point["close"]) for each point of a history.
Points(history) ==
    [i \in 1..Len(history) |-> <<history[i].timestamp, history[i].close>>]

\* initialize_price_history for an asset whose list is empty and for which
\* the KV gave nothing, from the value of get_price_history on: the list and
\* the KV entries after it.  An exception of get_price_history is caught.
seed(recorded, kvh, asset, got, raised) ==
    IF got.raised \/ got.value = <<>>
    THEN [recorded |-> recorded, kv |-> kvh]
    ELSE LET seeded == [recorded EXCEPT ![asset] = @ \o Points(got.value)]
         IN  [recorded |-> seeded, kv |-> save_history_to_kv(seeded, kvh, asset, raised)]

\* An append that never drops a point; C31 does not hold with it.
append_recorded_price_uncapped(recorded, kvh, asset, price, timestamp_ms, load_raised, save_raised) ==
    IF asset \notin DOMAIN recorded THEN [recorded |-> recorded, kv |-> kvh]
    ELSE LET loaded == IF Len(recorded[asset]) = 0
                       THEN load_history_from_kv(recorded, asset, load_raised).recorded
                       ELSE recorded
             appended == [loaded EXCEPT ![asset] = Append(@, <<timestamp_ms, price>>)]
         IN  [recorded |-> appended,
              kv |-> save_history_to_kv(appended, kvh, asset, save_raised)]

\* append_recorded_price(asset, price) at the time timestamp_ms.
append_recorded_price(recorded, kvh, asset, price, timestamp_ms, load_raised, save_raised) ==
    IF asset \notin DOMAIN recorded THEN [recorded |-> recorded, kv |-> kvh]
    ELSE LET loaded == IF Len(recorded[asset]) = 0
                       THEN load_history_from_kv(recorded, asset, load_raised).recorded
                       ELSE recorded
             longer == Append(loaded[asset], <<timestamp_ms, price>>)
             kept == IF Len(longer) > MAX_HISTORY_POINTS
                     THEN SubSeq(longer, Len(longer) - MAX_HISTORY_POINTS + 1, Len(longer))
                     ELSE longer
             appended == [loaded EXCEPT ![asset] = kept]
         IN  [recorded |-> appended,
              kv |-> save_history_to_kv(appended, kvh, asset, save_raised)]

\* get_recorded_history(asset, limit): the list after it and the OHLC data.
get_recorded_history(recorded, asset, limit, load_raised) ==
    IF asset \notin DOMAIN recorded THEN [recorded |-> recorded, data |-> <<>>]
    ELSE LET loaded == IF Len(recorded[asset]) = 0
                       THEN load_history_from_kv(recorded, asset, load_raised).recorded
                       ELSE recorded
             recent == LastItems(loaded[asset], limit)
         IN  [recorded |-> loaded,
              data |-> [i \in 1..Len(recent) |->
                          Candle(recent[i][1], RoundHalfEven(recent[i][2] * 10, 10))]]

\* startup_event: initialize_price_history before any request is served.
startup_event ==
    /\ seeding.pc = "import"
    /\ \E asset \in valid_assets, load_raised \in KvRaises :
        LET kv_load == load_history_from_kv(RECORDED_PRICE_HISTORY, asset, load_raised)
        IN  IF kv_load.loaded
            THEN /\ RECORDED_PRICE_HISTORY' = kv_load.recorded
                 /\ UNCHANGED <<history_kv, base_prices, REAL_PRICES_LOADED>>
            ELSE \E market \in MarketRequest(asset), save_raised \in KvRaises :
                 \E cg \in IF FallsBack(asset, market) THEN CoinGeckoRequest ELSE {NoRequest} :
                 \E variation \in IF FallsBack(asset, market) THEN SeedVariations
                                  ELSE {[i \in 1..seed_limit |-> 10000]} :
                    LET got == price_history(asset, "1m", seed_limit, market, cg,
                                             variation, interval)
                        after == seed(RECORDED_PRICE_HISTORY, history_kv, asset, got,
                                      save_raised)
                    IN  /\ RECORDED_PRICE_HISTORY' = after.recorded
                        /\ history_kv' = after.kv
                        /\ base_prices' = got.fetched.base_prices
                        /\ REAL_PRICES_LOADED' = got.fetched.loaded
    /\ seeding' = NotSeeding
    /\ UNCHANGED <<service_vars, call_vars, KV_AVAILABLE, interval, rng, oracle_url>>

\* The response of /prices/history.
HistoryResponse(status, data) == [status |-> status, data |-> data]

\* /prices/history up to the history request of initialize_price_history:
\* 400 for an asset or an interval that is not valid; the recorded history
\* when there is some, in memory or in the KV; else get_price_history is
\* called.
get_price_history_endpoint_request ==
    /\ seeding.pc = "idle"
    /\ \E asset \in Assets, interval_arg \in AskedIntervals, limit \in Limits,
          load_raised \in KvRaises :
        LET kv_load == load_history_from_kv(RECORDED_PRICE_HISTORY, asset, load_raised)
            served == get_recorded_history(
                          IF Len(RECORDED_PRICE_HISTORY[asset]) = 0
                          THEN kv_load.recorded ELSE RECORDED_PRICE_HISTORY,
                          asset, Min(limit, 1000), load_raised)
        IN  /\ args' = [fn |-> "get_price_history_endpoint"]
            /\ IF asset \notin valid_assets \/ interval_arg \notin valid_intervals
               THEN /\ result' = <<HistoryResponse(400, <<>>)>>
                    /\ UNCHANGED <<RECORDED_PRICE_HISTORY, seeding, base_prices,
                                   REAL_PRICES_LOADED>>
               ELSE IF Len(RECORDED_PRICE_HISTORY[asset]) > 0 \/ kv_load.loaded
               THEN /\ result' = <<HistoryResponse(200, served.data)>>
                    /\ RECORDED_PRICE_HISTORY' = served.recorded
                    /\ UNCHANGED <<seeding, base_prices, REAL_PRICES_LOADED>>
               ELSE \E market \in MarketRequest(asset) :
                    \E cg \in IF FallsBack(asset, market) THEN CoinGeckoRequest
                              ELSE {NoRequest} :
                    \E variation \in IF FallsBack(asset, market) THEN SeedVariations
                                     ELSE {[i \in 1..seed_limit |-> 10000]} :
                        LET got == price_history(asset, "1m", seed_limit, market, cg,
                                                 variation, interval)
                        IN  /\ result' = <<>>
                            /\ seeding' = [pc |-> "fetched", asset |-> asset,
                                           limit |-> limit,
                                           history |-> IF got.raised THEN <<>>
                                                       ELSE got.value]
                            /\ base_prices' = got.fetched.base_prices
                            /\ REAL_PRICES_LOADED' = got.fetched.loaded
                            /\ UNCHANGED RECORDED_PRICE_HISTORY
    /\ UNCHANGED <<service_vars, KV_AVAILABLE, history_kv, interval, rng, oracle_url>>

\* /prices/history from the value of get_price_history on: the points are
\* appended and saved, and the recorded history is returned.
get_price_history_endpoint ==
    /\ seeding.pc = "fetched"
    /\ \E load_raised \in KvRaises, save_raised \in KvRaises :
        LET after == seed(RECORDED_PRICE_HISTORY, history_kv, seeding.asset,
                          [raised |-> FALSE, value |-> seeding.history], save_raised)
            served == get_recorded_history(after.recorded, seeding.asset,
                                           Min(seeding.limit, 1000), load_raised)
        IN  /\ RECORDED_PRICE_HISTORY' = served.recorded
            /\ history_kv' = after.kv
            /\ result' = <<HistoryResponse(200, served.data)>>
    /\ seeding' = NotSeeding
    /\ UNCHANGED <<service_vars, args, KV_AVAILABLE, feed_vars>>

\* /prices for an asset of its list: the quote, the 24h statistics (which
\* can load the real prices if the quote did not, and raise), and the quote
\* appended to the recorded history at the time of the request.
get_all_prices ==
    /\ seeding.pc # "import"
    /\ interval < MaxInterval
    /\ interval' = interval + 1
    /\ \E asset \in valid_assets, cg \in CoinGeckoRequest, oracle \in OracleRequest,
          load_raised \in KvRaises, save_raised \in KvRaises :
        LET quote == oracle_price(asset, cg, oracle)
        IN  \E again \in IF quote.fetched.loaded THEN {NoRequest} ELSE CoinGeckoOutcomes :
            LET fetched == fetched_prices(quote.fetched.base_prices,
                                          quote.fetched.loaded, again)
            IN  \E stats_raised \in IF fetched.base_prices[asset] = <<>>
                                    THEN BOOLEAN ELSE {FALSE} :
                LET after == append_recorded_price(RECORDED_PRICE_HISTORY, history_kv,
                                 asset, quote.value, interval', load_raised, save_raised)
                IN  /\ base_prices' = IF quote.raised THEN quote.fetched.base_prices
                                      ELSE fetched.base_prices
                    /\ REAL_PRICES_LOADED' = IF quote.raised THEN quote.fetched.loaded
                                             ELSE fetched.loaded
                    /\ IF quote.raised \/ stats_raised
                       THEN UNCHANGED <<RECORDED_PRICE_HISTORY, history_kv>>
                       ELSE /\ RECORDED_PRICE_HISTORY' = after.recorded
                            /\ history_kv' = after.kv
    /\ UNCHANGED <<service_vars, call_vars, KV_AVAILABLE, seeding, rng, oracle_url>>

HistoryInit ==
    /\ USING_KV = FALSE
    /\ NoAccounts
    /\ NoCall
    /\ base_prices = BasePricesAtImport
    /\ REAL_PRICES_LOADED = FALSE
    /\ interval = 0
    /\ rng \in {[x \in BASE_PRICES \X (1..MaxInterval) |-> draw] :
                    draw \in UNION {UniformDraws(VOLATILITY[a]) : a \in BASE_PRICES}}
    /\ oracle_url = FALSE
    /\ RECORDED_PRICE_HISTORY = [a \in valid_assets |-> <<>>]
    /\ KV_AVAILABLE \in BOOLEAN
    /\ history_kv \in [valid_assets -> IF KV_AVAILABLE THEN StoredHistories ELSE {<<>>}]
    /\ seeding = [NotSeeding EXCEPT !.pc = "import"]

HistoryNext ==
    \/ startup_event
    \/ get_price_history_endpoint_request
    \/ get_price_history_endpoint
    \/ get_all_prices

HistorySpec == HistoryInit /\ [][HistoryNext]_vars

\* ------------------------------- index.py, price_history.py: the appends
\* append_recorded_price on a history that has grown to its bound, and
\* append_price_point of price_history.py, a module with a store of its own
\* (PRICE_HISTORY_DB or the KV entry price_history:<asset>:<interval>),
\* taken as a function of what is stored: args.stored is the stored history
\* before the call, result what is stored after it and what it returned.
\* Each call reads the clock later than the one before it.
HistoryLengths == {0, 999, 1000}

RecordedPrices == {6790000, 6800000}

\* n points recorded up to now.
Recorded(n) == [i \in 1..n |-> <<i - n, 6800000>>]

\* n points as price_history.py stores them; 1002 points can come from
\* initialize_history_if_needed, which stores what CoinGecko answers.
StoredPoints(n) == [i \in 1..n |-> Candle(i - n, 6800000)]

StoredLengths == {0, 999, 1002}

append_recorded_price_call ==
    /\ interval < MaxInterval
    /\ interval' = interval + 1
    /\ \E asset \in Assets, price \in RecordedPrices,
          load_raised \in KvRaises, save_raised \in KvRaises :
        LET after == append_recorded_price(RECORDED_PRICE_HISTORY, history_kv, asset,
                                           price, interval', load_raised, save_raised)
        IN  /\ RECORDED_PRICE_HISTORY' = after.recorded
            /\ history_kv' = after.kv
            /\ args' = [fn |-> "append_recorded_price", asset |-> asset,
                        price |-> price, timestamp |-> interval', stored |-> <<>>]
            /\ result' = <<>>
    /\ UNCHANGED <<service_vars, KV_AVAILABLE, seeding, base_prices,
                   REAL_PRICES_LOADED, rng, oracle_url>>

\* get_stored_history: None when kv.get raises or nothing is stored.
get_stored_history(stored, using_kv, get_raised) ==
    IF using_kv /\ get_raised THEN <<>> ELSE stored

\* append_price_point(asset, interval, price) at the time timestamp, for a
\* store that holds stored: what it holds after the call, and the value of
\* save_price_history, which the call returns.
append_price_point(stored, using_kv, price, timestamp, get_raised, set_raised) ==
    LET history == Append(get_stored_history(stored, using_kv, get_raised),
                          Candle(timestamp, RoundHalfEven(price * 10, 10)))
        kept == IF Len(history) > 1000
                THEN SubSeq(history, Len(history) - 1000 + 1, Len(history))
                ELSE history
    IN  IF using_kv /\ set_raised THEN [stored |-> stored, returned |-> FALSE]
        ELSE [stored |-> kept, returned |-> TRUE]

append_price_point_call ==
    /\ interval < MaxInterval
    /\ interval' = interval + 1
    /\ \E price \in RecordedPrices, using_kv \in BOOLEAN :
       \E stored \in {StoredPoints(n) : n \in StoredLengths}
                        \cup (IF args.fn = "append_price_point"
                              THEN {result[1].stored} ELSE {}),
          get_raised \in (IF using_kv THEN BOOLEAN ELSE {FALSE}),
          set_raised \in (IF using_kv THEN BOOLEAN ELSE {FALSE}) :
        /\ args' = [fn |-> "append_price_point", asset |-> "BTC", price |-> price,
                    timestamp |-> interval', stored |-> stored]
        /\ result' = <<append_price_point(stored, using_kv, price, interval',
                                          get_raised, set_raised)>>
    /\ UNCHANGED <<service_vars, history_vars, base_prices, REAL_PRICES_LOADED,
                   rng, oracle_url>>

\* The limits a caller asks for.
AskedLimits == {0 - 1, 0, 2, 1001}

\* get_recorded_history(asset, limit), called as it is or by /prices/history
\* for an asset with recorded points, which passes min(limit, 1000).
get_recorded_history_call ==
    /\ \E fn \in {"get_recorded_history", "get_price_history_endpoint"},
          asset \in valid_assets, limit \in AskedLimits, load_raised \in KvRaises :
        LET served == get_recorded_history(RECORDED_PRICE_HISTORY, asset,
                          IF fn = "get_price_history_endpoint" THEN Min(limit, 1000)
                          ELSE limit, load_raised)
        IN  /\ fn = "get_price_history_endpoint" => Len(RECORDED_PRICE_HISTORY[asset]) > 0
            /\ RECORDED_PRICE_HISTORY' = served.recorded
            /\ args' = [fn |-> fn, asset |-> asset, limit |-> limit]
            /\ result' = <<HistoryResponse(200, served.data)>>
    /\ UNCHANGED <<service_vars, KV_AVAILABLE, history_kv, seeding, feed_vars>>

AppendInit ==
    /\ USING_KV = FALSE
    /\ NoAccounts
    /\ NoFeed
    /\ args = [fn |-> "none", asset |-> "", price |-> 0, timestamp |-> 0, stored |-> <<>>]
    /\ result = <<>>
    /\ RECORDED_PRICE_HISTORY \in {[a \in valid_assets |-> Recorded(n)] : n \in HistoryLengths}
    /\ KV_AVAILABLE \in BOOLEAN
    /\ history_kv \in [valid_assets -> IF KV_AVAILABLE
                                        THEN {<<>>} \cup {<<Recorded(n)>> : n \in HistoryLengths \ {0}}
                                        ELSE {<<>>}]
    /\ seeding = NotSeeding

AppendNext ==
    \/ append_recorded_price_call
    \/ append_price_point_call
    \/ get_recorded_history_call

AppendSpec == AppendInit /\ [][AppendNext]_vars

\* ------------------------------------ the waits of a request, step by step
\* A request followed from one wait to the next: get_or_create_account with
\* its store calls, then each call of get_oracle_price with the request of
\* fetch_real_current_prices (timeout=15), the request to the oracle
\* (timeout=5) and the perturbation loop, one iteration a step, then the
\* response.  requests.get answers, raises, or raises Timeout when the time
\* is up; a store call returns or raises.  args is the request in progress:
\* calls is the number of get_oracle_price calls it still makes, n the
\* iterations the loop has made.  What the handlers do to the accounts is
\* followed in Spec and left out here.
Windows == {0, 7, 57}

PendingKinds == {"get_oracle_price", "open_position", "close_position", "get_account_state"}

\* The calls of get_oracle_price a request makes: one for a quote; none for
\* an open that fails its collateral check, one otherwise; none for a close
\* of an unknown position, one otherwise; one per position for a read.
PendingCalls(fn) ==
    CASE fn = "get_oracle_price" -> {1}
      [] fn = "open_position" -> {0, 1}
      [] fn = "close_position" -> {0, 1}
      [] fn = "get_account_state" -> {0, 1, 2}

NoPending ==
    [fn |-> "none", pc |-> "idle", asset |-> "", calls |-> 0, n |-> 0,
     quote |-> [raised |-> FALSE, value |-> 0]]

PendingStep(pending) ==
    /\ args' = pending
    /\ UNCHANGED <<service_vars, history_vars, result, interval, rng, oracle_url>>

pending_request ==
    /\ args.pc = "idle"
    /\ \E fn \in PendingKinds, asset \in Assets :
       \E calls \in PendingCalls(fn) :
        /\ args' = [NoPending EXCEPT !.fn = fn, !.asset = asset, !.calls = calls,
                        !.pc = IF fn = "get_oracle_price" THEN "fetch" ELSE "account"]
        /\ result' = <<>>
    /\ UNCHANGED <<service_vars, history_vars, feed_vars>>

\* get_or_create_account: db.get_account and db.save_account return or
\* raise inside state.py, and the handler goes on in both cases.
pending_get_or_create_account ==
    /\ args.pc = "account"
    /\ PendingStep([args EXCEPT !.pc = IF args.calls = 0 THEN "respond" ELSE "fetch"])
    /\ UNCHANGED <<base_prices, REAL_PRICES_LOADED>>

\* fetch_real_current_prices(), the first statement of get_oracle_price.
pending_fetch_real_current_prices ==
    /\ args.pc = "fetch"
    /\ \E cg \in CoinGeckoRequest :
        LET fetched == fetch_real_current_prices(cg)
        IN  /\ base_prices' = fetched.base_prices
            /\ REAL_PRICES_LOADED' = fetched.loaded
    /\ PendingStep([args EXCEPT !.pc = "oracle", !.n = 0])

\* The request to the oracle and, without a price from it, the test of
\* BASE_PRICES.
pending_oracle_request ==
    /\ args.pc = "oracle"
    /\ \E oracle \in OracleRequest :
        PendingStep(
            IF oracle_url /\ oracle.kind = "ok"
            THEN [args EXCEPT !.pc = "returned",
                              !.quote = [raised |-> FALSE, value |-> oracle.usd]]
            ELSE IF args.asset \notin DOMAIN base_prices
            THEN [args EXCEPT !.pc = "returned",
                              !.quote = [raised |-> FALSE, value |-> 0]]
            ELSE [args EXCEPT !.pc = "loop"])
    /\ UNCHANGED <<base_prices, REAL_PRICES_LOADED>>

\* One iteration of the perturbation loop.
pending_loop_iteration ==
    /\ args.pc = "loop"
    /\ args.n < Iterations(interval)
    /\ PendingStep([args EXCEPT !.n = @ + 1])
    /\ UNCHANGED <<base_prices, REAL_PRICES_LOADED>>

\* The loop is over: the price, clamped and rounded, or the TypeError.
pending_mock_price ==
    /\ args.pc = "loop"
    /\ args.n >= Iterations(interval)
    /\ PendingStep([args EXCEPT !.pc = "returned",
                                !.quote = mock_price(args.asset, base_prices)])
    /\ UNCHANGED <<base_prices, REAL_PRICES_LOADED>>

\* get_oracle_price has returned or raised: the next call of the request,
\* or, after the last one or an exception, the response.
pending_returned ==
    /\ args.pc = "returned"
    /\ PendingStep([args EXCEPT !.calls = @ - 1,
                                !.pc = IF args.calls > 1 /\ ~args.quote.raised
                                       THEN "fetch" ELSE "respond"])
    /\ UNCHANGED <<base_prices, REAL_PRICES_LOADED>>

\* The response, or the error the framework answers with.
pending_response ==
    /\ args.pc = "respond"
    /\ args' = [args EXCEPT !.pc = "idle"]
    /\ result' = <<[fn |-> args.fn, raised |-> args.quote.raised,
                     value |-> args.quote.value]>>
    /\ UNCHANGED <<service_vars, history_vars, feed_vars>>

PendingInit ==
    /\ USING_KV = FALSE
    /\ NoAccounts
    /\ NoHistory
    /\ args = NoPending
    /\ result = <<>>
    /\ base_prices = BasePricesAtImport
    /\ REAL_PRICES_LOADED = FALSE
    /\ interval \in Windows
    /\ rng \in {[x \in BASE_PRICES \X (1..57) |-> draw] :
                    draw \in UNION {UniformDraws(VOLATILITY[a]) : a \in BASE_PRICES}}
    /\ oracle_url \in BOOLEAN

\* The steps of a request in progress.
PendingProgress ==
    \/ pending_get_or_create_account
    \/ pending_fetch_real_current_prices
    \/ pending_oracle_request
    \/ pending_loop_iteration
    \/ pending_mock_price
    \/ pending_returned
    \/ pending_response

PendingNext == pending_request \/ PendingProgress

\* The thread of a request runs, and every requests.get ends by its timeout.
PendingSpec == PendingInit /\ [][PendingNext]_vars /\ WF_vars(PendingProgress)

\* ------------------------------------------------------------------ claims
RECURSIVE SumCollateral(_)
SumCollateral(positions) ==
    IF positions = <<>> THEN 0
    ELSE Head(positions).collateral_ae + SumCollateral(Tail(positions))

Ids(positions) == {positions[i].id : i \in 1..Len(positions)}

TheAddress(r) == req[r].user_address

\* The account as the store holds it after the step.
PersistedAfter(address) == StoredIn(kv', ACCOUNTS_DB', heap', address)

\* The step is the one in which the thread r leaves the program point pc.
Leaves(r, pc) == req[r].pc = pc /\ req'[r].pc # pc

\* The step is the one in which the thread r, at the program point pc, sends
\* its response.
Answers(r, pc) == req[r].pc = pc /\ req'[r].pc = "idle"

\* C1: for every account, after any sequence of open_position and
\* close_position calls, available_collateral_ae equals on_chain_balance_ae
\* minus the sum of collateral_ae over the account's open positions.
C1_AvailableIsBalanceMinusLocked ==
    \A a \in Addresses :
        Persisted(a) # <<>> =>
            Persisted(a)[1].available_collateral_ae =
                Persisted(a)[1].on_chain_balance_ae - SumCollateral(Persisted(a)[1].positions)

\* C2: in every reachable state of every account, available_collateral_ae is
\* greater than or equal to 0.
C2_AvailableNeverNegative ==
    \A a \in Addresses :
        Persisted(a) # <<>> => Persisted(a)[1].available_collateral_ae >= 0

\* C3: two open_position/close_position requests on one address never
\* interleave their load-modify-save of the account: the save of an open or a
\* close replaces only the account state the request loaded (no position or
\* collateral change of another request is overwritten), and the collateral an
\* accepted open locks is no more than the collateral the account has
\* available when it is locked.
C3_OpensAndClosesSerialized ==
    [][\A r \in Slots :
        ((Answers(r, "validated") \/ Answers(r, "found"))
            /\ last'.status = 200 /\ ~req[r].get_raised /\ Persisted(TheAddress(r)) # <<>>)
        => /\ View(Persisted(TheAddress(r))) = View(heap[req[r].account])
           /\ req[r].pc = "validated" =>
                req[r].collateral_to_use_ae <=
                    Persisted(TheAddress(r))[1].available_collateral_ae]_vars

\* C4: the balance refresh of get_account_state (load the account, update
\* on_chain_balance_ae, save it back) never makes the persisted account lose
\* the new position of an open or the settlement of a close on the same
\* address: its save leaves the positions and the available collateral of the
\* persisted account as they are.
C4_RefreshKeepsOpensAndCloses ==
    [][\A r \in Slots :
        (Leaves(r, "loaded") /\ req[r].op = "read" /\ ~req[r].get_raised
            /\ Persisted(TheAddress(r)) # <<>>)
        => View(PersistedAfter(TheAddress(r))) = View(Persisted(TheAddress(r)))]_vars

\* C5: when db.save_account fails, open_position and close_position do not
\* report success: no response is "Position opened successfully" or "Position
\* closed" while the save of that change returned failure.
C5_NoSuccessWithoutSave ==
    (last.op \in {"open", "close"} /\ last.status = 200) => last.saved

\* C6: a failure of the backend while reading an existing account never makes
\* get_or_create_account treat the address as new and save a fresh account
\* over the persisted account that has open positions.
C6_ReadFailureNeverOverwrites ==
    [][\A r \in Slots :
        (Leaves(r, "loaded") /\ req[r].get_raised
            /\ Persisted(TheAddress(r)) # <<>>
            /\ Persisted(TheAddress(r))[1].positions # <<>>)
        => View(PersistedAfter(TheAddress(r))) = View(Persisted(TheAddress(r)))]_vars

\* C7: open_position with collateral_to_use_ae greater than the account's
\* available_collateral_ae fails with "Insufficient available collateral"
\* (an open that goes on has collateral within the available collateral), and
\* the persisted account's position list and available_collateral_ae are the
\* same after the failed call as before it.
C7_InsufficientCollateralLeavesAccount ==
    [][\A r \in Slots :
        (Leaves(r, "loaded") /\ req[r].op = "open")
        => /\ req'[r].pc = "validated" =>
                req'[r].collateral_to_use_ae <=
                    heap'[req'[r].account][1].available_collateral_ae
           /\ req'[r].pc = "idle" =>
                /\ last'.status = 400
                /\ last'.detail = "Insufficient available collateral"
                /\ Persisted(TheAddress(r)) # <<>> =>
                     View(PersistedAfter(TheAddress(r))) = View(Persisted(TheAddress(r)))]_vars

\* C8: open_position on an asset whose quote is the "no price" sentinel 0.0
\* fails with "Could not fetch oracle price" and creates no position (the
\* store, the account objects and the ids issued stay as they are); every
\* position stored in any account has entry_price > 0.
EntryPricesPositive ==
    /\ \A a \in Addresses :
        Persisted(a) # <<>> =>
            \A i \in 1..Len(Persisted(a)[1].positions) :
                Persisted(a)[1].positions[i].entry_price > 0
    /\ \A o \in ObjIds :
        heap[o] # <<>> =>
            \A i \in 1..Len(heap[o][1].positions) : heap[o][1].positions[i].entry_price > 0

C9_CloseOnceOrNotFound ==
    [][\A r \in Slots :
        /\ (Answers(r, "found") /\ last'.status = 200)
            => /\ Len(Without(heap[req[r].account][1].positions, last'.asked)) =
                    Len(heap[req[r].account][1].positions) - 1
               /\ Persisted(TheAddress(r)) # <<>>
               /\ last'.asked \in Ids(Persisted(TheAddress(r))[1].positions)
        /\ (Answers(r, "loaded") /\ req[r].op = "close")
            => /\ last'.status = 404 /\ last'.detail = "Position not found"
               /\ Persisted(TheAddress(r)) # <<>> =>
                    View(PersistedAfter(TheAddress(r))) = View(Persisted(TheAddress(r)))]_vars

\* C10: a successful close_position increases available_collateral_ae by
\* exactly the closed position's collateral_ae plus pnl_ae, pnl_ae being the
\* position's PnL in USD divided by the closing price, with no clamping; the
\* account it saves holds that value, and realized_pnl_ae is that pnl_ae.
ExpectedPnlUsd(position, closing_price) ==
    IF position.side = "long"
    THEN (closing_price - position.entry_price) * (position.size_usd \div position.entry_price)
    ELSE (position.entry_price - closing_price) * (position.size_usd \div position.entry_price)

C10_CloseSettlesCollateralPlusPnl ==
    [][\A r \in Slots :
        (Answers(r, "found") /\ last'.status = 200)
        => LET position == req[r].position_to_close[1]
               before == heap[req[r].account][1].available_collateral_ae
               pnl_usd == ExpectedPnlUsd(position, last'.price)
           IN  /\ last'.realized_pnl_ae * last'.price = pnl_usd
               /\ last'.saved =>
                    PersistedAfter(TheAddress(r))[1].available_collateral_ae =
                        before + position.collateral_ae + last'.realized_pnl_ae]_vars

C10_Witness ==
    /\ last.op = "close" /\ last.status = 200 /\ last.saved
    /\ last.realized_pnl_ae < 0
    /\ \E a \in Addresses :
        /\ Persisted(a) # <<>>
        /\ Persisted(a)[1].available_collateral_ae < 0

\* C11: the PnL of a position depends on its side, long (current - entry) *
\* (size_usd / entry), short (entry - current) * (size_usd / entry), in both
\* entry points; here for the PnL close_position of main.py settles: the
\* realized_pnl_ae it returns, times the closing price, is the PnL in USD of
\* the position's side.
C11_PnlFollowsSide ==
    [][\A a \in Addresses :
        (nreq' # nreq /\ last'.op = "close" /\ last'.status = 200
            /\ Persisted(a) # <<>>
            /\ FindPosition(Persisted(a)[1].positions, last'.asked) # <<>>)
        => last'.realized_pnl_ae * last'.price =
            ExpectedPnlUsd(FindPosition(Persisted(a)[1].positions, last'.asked)[1],
                           last'.price)]_vars

\* C12: a successful open_position creates a position with size_usd =
\* collateral_ae * entry price * leverage, entry_price the quote fetched
\* during the call, liquidation_price = entry * (1 - 1/leverage) for a long
\* and entry * (1 + 1/leverage) for a short (stated times the leverage); it
\* appends that position to the account the request works on and decreases
\* its available_collateral_ae by exactly collateral_ae, and that is the
\* account it saves.
C12_OpenCreatesPosition ==
    [][\A r \in Slots :
        (Answers(r, "validated") /\ last'.status = 200)
        => LET p == last'.position[1]
               before == heap[req[r].account][1]
           IN  /\ p.collateral_ae = req[r].collateral_to_use_ae
               /\ p.entry_price = last'.price
               /\ p.size_usd = p.collateral_ae * p.entry_price * p.leverage
               /\ p.side = "long" =>
                    p.liquidation_price * p.leverage = p.entry_price * (p.leverage - 1)
               /\ p.side = "short" =>
                    p.liquidation_price * p.leverage = p.entry_price * (p.leverage + 1)
               /\ last'.saved =>
                    /\ PersistedAfter(TheAddress(r))[1].positions =
                            Append(before.positions, p)
                    /\ PersistedAfter(TheAddress(r))[1].available_collateral_ae =
                            before.available_collateral_ae - p.collateral_ae]_vars

C12_Witness ==
    /\ last.op = "open" /\ last.status = 200 /\ last.saved
    /\ last.position[1].leverage = 2 /\ last.position[1].side = "short"
    /\ \E a \in Addresses :
        /\ Persisted(a) # <<>>
        /\ Len(Persisted(a)[1].positions) = 2
        /\ Persisted(a)[1].positions[2] = last.position[1]

C14_StoredPositionsWellFormed ==
    \A a \in Addresses :
        Persisted(a) # <<>> =>
            \A i \in 1..Len(Persisted(a)[1].positions) :
                /\ Persisted(a)[1].positions[i].leverage >= 1
                /\ Persisted(a)[1].positions[i].liquidation_price > 0

\* C16: Closed is terminal: once close_position has removed a position id
\* from an account, that id never appears again in a position list under any
\* later operation.  Stated for the operation that comes first: in the state
\* a successful, saved close has left, where the id it closed is not in the
\* persisted list, no step puts that id back.
C16_ClosedIsTerminal ==
    [][\A a \in Addresses :
        (/\ last.op = "close" /\ last.status = 200 /\ last.saved
         /\ Persisted(a) # <<>>
         /\ last.asked \notin Ids(Persisted(a)[1].positions))
        => (PersistedAfter(a) # <<>> =>
                last.asked \notin Ids(PersistedAfter(a)[1].positions))]_vars

\* C17: when the quote for an open position's asset is the "no price"
\* sentinel 0.0, close_position and get_account_state reject the request with
\* a defined error instead of dividing by the price (the response is not the
\* framework's answer to an unhandled exception, which in these two handlers
\* only the division by the quote raises), and the persisted account is left
\* unchanged.
C17_NoPriceRejectedBeforeMath ==
    [][\A r \in Slots :
        /\ (Answers(r, "found") /\ last'.price = 0)
            => /\ last'.status # 200
               /\ last'.detail # "Internal Server Error"
               /\ PersistedAfter(TheAddress(r)) = Persisted(TheAddress(r))
        /\ (Answers(r, "account") /\ last'.status # 200)
            => /\ last'.detail # "Internal Server Error"
               /\ PersistedAfter(TheAddress(r)) = Persisted(TheAddress(r))]_vars

\* C18: for every asset, any two get_oracle_price calls made within the same
\* 5-second window return the identical price: a call that follows a call for
\* the same asset in the same window returns what that call returned.
C18_SameWindowSamePrice ==
    [][(/\ args # <<>> /\ args.fn = "get_oracle_price"
        /\ args' # <<>> /\ args'.fn = "get_oracle_price"
        /\ args'.asset = args.asset /\ args'.interval = args.interval)
       => result' = result]_vars

\* C19: every price get_oracle_price returns for a known asset lies between
\* 0.9 and 1.1 times that asset's base price, in every window.
C19_WithinTenPercentOfBase ==
    (/\ args # <<>> /\ args.fn = "get_oracle_price"
     /\ args.asset \in BASE_PRICES /\ base_prices[args.asset] # <<>>
     /\ ~result[1].raised)
    => /\ result[1].value * 10 >= base_prices[args.asset][1] * 900
       /\ result[1].value * 10 <= base_prices[args.asset][1] * 1100

\* C20: feed unavailability is never fatal: no call of get_oracle_price or
\* get_price_history raises, and a call of get_price_history for a known asset
\* and a positive limit returns a series that is not empty.
C20_FeedNeverFatal ==
    (args # <<>> /\ args.fn \in {"get_oracle_price", "get_price_history"})
    => /\ ~result[1].raised
       /\ (/\ args.fn = "get_price_history"
           /\ args.asset \in BASE_PRICES
           /\ args.limit > 0) => result[1].value # <<>>

\* The length of a requested interval, in 5-second windows.
IntervalLength(interval_arg) == IF interval_arg = "1m" THEN 12 ELSE 60

\* C21: when the external source is unreachable, the history synthesized for
\* a known asset has exactly limit points, consecutive points are one requested
\* interval apart, and the last point is at the current time.
C21_FallbackHistoryShape ==
    (/\ args # <<>> /\ args.fn = "get_price_history"
     /\ args.asset \in BASE_PRICES
     /\ args.market \in {"timeout", "network"}
     /\ ~result[1].raised)
    => LET history == result[1].value
       IN  /\ Len(history) = args.limit
           /\ \A i \in 1..(Len(history) - 1) :
                history[i + 1].timestamp - history[i].timestamp
                    = IntervalLength(args.interval_arg)
           /\ history # <<>> => history[Len(history)].timestamp = args.interval

C23_WitnessZeroOpen ==
    /\ args # <<>> /\ args.fn = "get_24h_stats"
    /\ result # <<>> /\ ~result[1].raised
    /\ result[1].history # <<>>
    /\ result[1].value.open_24h = 0
    /\ args.current_price # 0

C23_WitnessAllEqual ==
    /\ args # <<>> /\ args.fn = "get_24h_stats"
    /\ result # <<>> /\ ~result[1].raised
    /\ Len(result[1].history) = stats_limit
    /\ \A i \in 1..stats_limit : result[1].history[i].open = args.current_price

\* C22: within the OHLC series /prices/history returns for an asset, the
\* timestamps are strictly increasing.
C22_TimestampsIncrease ==
    (/\ args # <<>> /\ args.fn = "get_price_history_endpoint"
     /\ result # <<>> /\ result[1].status = 200)
    => \A i \in 1..(Len(result[1].data) - 1) :
            result[1].data[i].timestamp < result[1].data[i + 1].timestamp

\* C24: every account read returns an account with the re-queried on-chain
\* balance in which each open position's current_price is the quote that read
\* fetched for it, and its unrealized_pnl_usd and unrealized_pnl_ae are
\* computed from that quote.
C24_ReadIsLive ==
    (last.op = "read" /\ last.status = 200)
    => /\ last.account.on_chain_balance_ae = get_on_chain_balance(last.account.address)
       /\ \A i \in 1..Len(last.account.positions) :
            LET position == last.account.positions[i]
            IN  /\ i <= Len(last.quotes)
                /\ position.current_price = <<last.quotes[i]>>
                /\ position.unrealized_pnl_usd =
                       calculate_position_pnl(position.size_usd, position.entry_price,
                                              last.quotes[i], position.side).pnl_usd
                /\ position.unrealized_pnl_ae =
                       PnlAe(position.unrealized_pnl_usd, last.quotes[i])

\* C25: the first operation on an address with no persisted account persists
\* a new one with on_chain_balance_ae from the balance query,
\* available_collateral_ae equal to it and no positions; and after every
\* successful open or close the persisted account is the account the
\* operation computed.
C25_CreatedAndPersisted ==
    [][\A r \in Slots :
        LET address == TheAddress(r)
            balance == get_on_chain_balance(address)
            account == heap[req[r].account][1]
        IN  /\ (Leaves(r, "loaded") /\ Persisted(address) = <<>>)
                => PersistedAfter(address) = <<Account(address, balance, balance, <<>>)>>
            /\ (Answers(r, "validated") /\ last'.status = 200)
                => PersistedAfter(address) =
                       <<[account EXCEPT
                            !.positions = Append(@, last'.position[1]),
                            !.available_collateral_ae = @ - last'.asked]>>
            /\ (Answers(r, "found") /\ last'.status = 200)
                => PersistedAfter(address) =
                       <<[account EXCEPT
                            !.available_collateral_ae =
                                @ + req[r].position_to_close[1].collateral_ae
                                  + last'.realized_pnl_ae,
                            !.positions = Without(@, last'.asked)]>>]_vars

\* C26: an open, close or read on one address leaves the persisted account
\* of every other address unchanged, also when requests on the two addresses
\* interleave: a step of a thread changes no account but that of the address
\* its request is for.
C26_OtherAddressesUnchanged ==
    [][\A r \in Slots, b \in DOMAIN kv :
        (req'[r] # req[r] /\ b # (IF InFlight(r) THEN req[r].user_address
                                  ELSE req'[r].user_address))
            => PersistedAfter(b) = Persisted(b)]_vars

\* A position is closed for one address while the other holds a position.
C26_Witness ==
    /\ last.op = "close" /\ last.status = 200
    /\ \E a \in DOMAIN kv, b \in DOMAIN kv :
        /\ a # b
        /\ Persisted(a) # <<>> /\ Persisted(a)[1].positions = <<>>
        /\ Persisted(b) # <<>> /\ Persisted(b)[1].positions # <<>>

\* What open_position gives a position, and what a read recomputes.
TermsOf(position) ==
    <<position.id, position.asset, position.side, position.size_usd,
      position.collateral_ae, position.leverage, position.entry_price,
      position.liquidation_price>>

UnrealizedOf(position) ==
    <<position.unrealized_pnl_usd, position.unrealized_pnl_ae, position.current_price>>

PositionsOf(stored) ==
    IF stored = <<>> THEN {}
    ELSE {stored[1].positions[i] : i \in 1..Len(stored[1].positions)}

\* C27: from its creation by open_position to its removal by close_position
\* a persisted position keeps its id, asset, side, size_usd, collateral_ae,
\* leverage, entry_price and liquidation_price; its unrealized_pnl_usd,
\* unrealized_pnl_ae and current_price change only in the step in which an
\* account read runs its loop.
C27_PositionTermsFixed ==
    [][\A a \in DOMAIN kv :
        \A p \in PositionsOf(Persisted(a)), q \in PositionsOf(PersistedAfter(a)) :
            p.id = q.id =>
                /\ TermsOf(q) = TermsOf(p)
                /\ UnrealizedOf(q) # UnrealizedOf(p) =>
                       \E r \in Slots : req[r].op = "read" /\ Answers(r, "account")]_vars

\* A read has revalued a persisted position at a quote other than its entry.
C27_Witness ==
    /\ last.op = "read" /\ last.status = 200
    /\ \E a \in DOMAIN kv : \E p \in PositionsOf(Persisted(a)) :
        p.current_price # <<>> /\ p.current_price # <<p.entry_price>>

\* C28: for the same sequence of get_account, save_account and
\* delete_account calls, without backend failure, the in-memory store and the
\* KV store return the same results; in particular get_account returns in
\* both what was last saved, not what the caller assigned to the object
\* afterwards without saving it.
C28_BackendsAgree ==
    result # <<>> => result[1].kv = result[1].db

\* C29: a /positions/open request with an asset symbol outside the allowed
\* set is rejected before the engine is reached: no open is answered with
\* "Position opened successfully" for a position on such an asset, and none
\* is persisted.
C29_UnknownAssetRejected ==
    /\ (last.op = "open" /\ last.status = 200) => last.position[1].asset \in valid_assets
    /\ \A a \in DOMAIN kv : \A p \in PositionsOf(Persisted(a)) : p.asset \in valid_assets

AppendedTo(asset) ==
    IF RECORDED_PRICE_HISTORY[asset] # <<>> THEN RECORDED_PRICE_HISTORY[asset]
    ELSE IF Len(RECORDED_PRICE_HISTORY'[asset]) > 1 THEN history_kv[asset][1]
    ELSE <<>>

\* The list after is the list before with the point appended, cut to its
\* last 1000 points.
LastThousand(before, after, point) ==
    /\ Len(after) = (IF Len(before) + 1 > 1000 THEN 1000 ELSE Len(before) + 1)
    /\ after[Len(after)] = point
    /\ \A i \in 1..(Len(after) - 1) : after[i] = before[Len(before) - (Len(after) - 1) + i]

\* C31: after every append_recorded_price the recorded history of the asset
\* holds at most MAX_HISTORY_POINTS points, the most recently appended ones
\* in the order they were appended; a successful append_price_point leaves
\* at most 1000 stored points, the new point last.
C31_AppendKeepsLastThousand ==
    [][(\A a \in valid_assets :
            /\ Len(RECORDED_PRICE_HISTORY'[a]) <= MAX_HISTORY_POINTS
            /\ (args'.fn = "append_recorded_price" /\ args'.asset = a)
                  => LastThousand(AppendedTo(a), RECORDED_PRICE_HISTORY'[a],
                                  <<args'.timestamp, args'.price>>))
       /\ ((args'.fn = "append_price_point" /\ result'[1].returned)
              => /\ Len(result'[1].stored) <= 1000
                 /\ \E before \in {args'.stored, <<>>} :
                      LastThousand(before, result'[1].stored,
                                   Candle(args'.timestamp, args'.price)))]_vars

\* A point was appended to a full history, whose oldest point went.
C31_Witness ==
    /\ args.fn = "append_recorded_price"
    /\ \E a \in valid_assets :
        /\ Len(RECORDED_PRICE_HISTORY[a]) = MAX_HISTORY_POINTS
        /\ RECORDED_PRICE_HISTORY[a][1][1] > 1 - MAX_HISTORY_POINTS
        /\ RECORDED_PRICE_HISTORY[a][MAX_HISTORY_POINTS] = <<args.timestamp, args.price>>

\* C32: get_recorded_history(asset, limit) returns the limit most recently
\* recorded points of the asset, in recording order, all of them when there
\* are fewer, and none for a limit of 0 or less; /prices/history never
\* returns more than 1000 points.
C32_AtMostLimitPoints ==
    (args.fn \in {"get_recorded_history", "get_price_history_endpoint"} /\ result # <<>>) =>
        LET data == result[1].data
            recorded == RECORDED_PRICE_HISTORY[args.asset]
        IN  /\ Len(data) = (IF args.limit <= 0 THEN 0
                            ELSE IF args.limit < Len(recorded) THEN args.limit
                            ELSE Len(recorded))
            /\ \A i \in 1..Len(data) :
                data[i].timestamp = recorded[Len(recorded) - Len(data) + i][1]
            /\ args.fn = "get_price_history_endpoint" => Len(data) <= 1000

\* C33: initialize_price_history does not seed an asset that has recorded
\* points in memory: a step adds to a non-empty recorded history at most
\* the one point a /prices request appends, after the points it holds, and
\* never the points of a seed.
C33_RecordedNotReseeded ==
    [][\A a \in valid_assets :
        LET before == RECORDED_PRICE_HISTORY[a]
            after == RECORDED_PRICE_HISTORY'[a]
        IN  Len(before) > 0 =>
                /\ Len(before) <= Len(after) /\ Len(after) <= Len(before) + 1
                /\ SubSeq(after, 1, Len(before)) = before]_vars

\* C34: when the in-memory history of an asset is empty, append_recorded_price
\* does not write to KV a history shorter than the one stored there, also
\* when the KV load fails and the KV save that follows succeeds.
C34_ColdStartKeepsStored ==
    [][\A a \in valid_assets :
        (/\ args'.fn = "append_recorded_price" /\ args'.asset = a
         /\ Len(RECORDED_PRICE_HISTORY[a]) = 0
         /\ history_kv[a] # <<>>)
            => /\ history_kv'[a] # <<>>
               /\ Len(history_kv'[a][1]) >= Len(history_kv[a][1])]_vars

\* C35: an accepted open_position never increases available_collateral_ae:
\* the collateral of an accepted request is above 0, and so is the
\* collateral_ae of every stored position.
C35_OpenNeverCredits ==
    /\ (last.op = "open" /\ last.status = 200) => last.asked > 0
    /\ \A a \in DOMAIN kv : \A p \in PositionsOf(Persisted(a)) : p.collateral_ae > 0

\* C36: an account read changes nothing in the persisted account but
\* on_chain_balance_ae: in every step of a get_account_state request for an
\* address that has an account, available_collateral_ae, the positions,
\* their order and each of their fields are the same after as before, in
\* the KV store and in the in-memory store.
C36_ReadKeepsAccount ==
    [][\A r \in Slots :
        LET address == TheAddress(r)
        IN  (req[r].op = "read" /\ req'[r] # req[r] /\ Persisted(address) # <<>>)
                => View(PersistedAfter(address)) = View(Persisted(address))]_vars

\* C37: for a known asset the statistics get_24h_stats returns satisfy
\* low_24h <= current price <= high_24h and low_24h <= open_24h <= high_24h,
\* with a history and without one.
C37_StatsBracketPrice ==
    (/\ args # <<>> /\ args.fn = "get_24h_stats" /\ args.asset \in BASE_PRICES
     /\ result # <<>> /\ ~result[1].raised) =>
        LET stats == result[1].value
        IN  /\ stats.low_24h <= args.current_price
            /\ args.current_price <= stats.high_24h
            /\ stats.low_24h <= stats.open_24h
            /\ stats.open_24h <= stats.high_24h

\* Statistics over a history whose prices lie below the quote.
C37_Witness ==
    /\ args # <<>> /\ args.fn = "get_24h_stats" /\ args.asset \in BASE_PRICES
    /\ result # <<>> /\ ~result[1].raised /\ result[1].history # <<>>
    /\ result[1].value.high_24h = args.current_price
    /\ result[1].value.low_24h < result[1].value.open_24h

\* Statistics without a history: the quote is high, low and open.
C37_WitnessEmpty ==
    /\ args # <<>> /\ args.fn = "get_24h_stats" /\ args.asset \in BASE_PRICES
    /\ result # <<>> /\ ~result[1].raised /\ result[1].history = <<>>
    /\ result[1].value.low_24h = args.current_price

====
